---- MODULE Spec2Model ----
(***************************************************************************)
(* A model of treepace: the node heap (nodes.py), trees and subtrees       *)
(* (base.py, trees.py), the replacement strategies (replace.py), the       *)
(* search machine (search.py, instructions.py, relations.py), the build    *)
(* machine (build.py) and the drivers Tree.search / Tree.replace /         *)
(* Tree.transform (trees.py).                                              *)
(***************************************************************************)
EXTENDS Integers, Sequences, FiniteSets, TLC

\* ------------------------------------------------------------------ bounds
\* Largest host tree drawn by Init (number of nodes).
MaxHost == 4
\* Largest replacement tree handed to Subtree.replace_by by Init.
MaxNew == 4
\* Nodes that one run may create on top of the host (build machine).
MaxFresh == 6
\* Calls of the same operation, with the same texts, that one run makes.
MaxCalls == 2
\* Longest sequence of found nodes of one match.
MaxTrail == 8

MaxNode == MaxHost + MaxNew + MaxFresh
Node == 1..MaxNode
\* Python's None, for a parent, a root or a tree that is absent.
None == 0

\* Node values of the hosts and of the replacement trees of SpecReplaceBy.
HostValue == <<"a", "b", "c", "d", "e", "f", "g", "h">>
NewValue == <<"p", "q", "r", "s", "t", "u", "v", "w">>

VARIABLES
    value,      \* Node._value, per node
    parent,     \* Node._parent, per node (None for a root or a detached node)
    children,   \* Node._children, per node
    used,       \* number of nodes created so far
    root,       \* Tree._root of the host tree
    pc,         \* position of the running operation
    err,        \* the exception that ended the operation, "none" otherwise
    old,        \* replace_by: the Subtree self (_root, _nodes)
    new,        \* replace_by: the root of the replacement tree (None: no tree)
    strategy,   \* replace_by: index into all_strategies of the loop
    applied,    \* replace_by: the strategies whose apply() ran in this call
    call0,      \* what the caller saw when the operation was called
    source,     \* the rule texts of the call, as token lists (never changes)
    rules,      \* the instruction lists the compiler returned for these texts
    op,         \* the operation called: "search", "replace" or "transform"
    rule,       \* transform: index of the rule of the for loop
    rule_matched, \* transform: the flag of the pass
    branches,   \* SearchMachine.branches
    new_branches, \* search(): the list of the round
    cursor,     \* search(): index of the branch of the for loop
    matches,    \* the list returned by the last search
    match,      \* index of the match of the for loop over matches
    vm,         \* BuildMachine: node, relation, tree
    log         \* what the caller observed: returned lists, builds, replacements

heapvars == <<value, parent, children, used, root>>
rbvars == <<old, new, strategy, applied>>
compilervars == <<source, rules>>
searchvars == <<branches, new_branches, cursor>>
drivervars == <<op, rule, rule_matched, matches, match>>
vars == <<value, parent, children, used, root, pc, err, old, new, strategy,
          applied, call0, source, rules, op, rule, rule_matched, branches,
          new_branches, cursor, matches, match, vm, log>>

\* ------------------------------------------------------------ nodes.py
\* The heap as one record, for the operators below.
Heap == [value |-> value, parent |-> parent, children |-> children]

Min(a, b) == IF a < b THEN a ELSE b
Max(a, b) == IF a > b THEN a ELSE b

\* list.insert(i, x) on a sequence, i zero-based (an index past the end appends).
ListInsert(s, i, x) ==
    LET k == Min(i, Len(s)) IN SubSeq(s, 1, k) \o <<x>> \o SubSeq(s, k + 1, Len(s))

\* del list[i], i zero-based.
ListDelete(s, i) == SubSeq(s, 1, i) \o SubSeq(s, i + 2, Len(s))

\* Node.index: zero-based position among the parent's children, 0 for a root.
index(h, n) ==
    IF h.parent[n] # None
    THEN (CHOOSE i \in 1..Len(h.children[h.parent[n]]) :
              h.children[h.parent[n]][i] = n) - 1
    ELSE 0

\* Node.add_child: appended at the end; the child's former parent keeps its list.
add_child(h, p, c) ==
    [h EXCEPT !.parent[c] = p, !.children[p] = Append(@, c)]

\* Node.insert_child.
insert_child(h, p, c, i) ==
    [h EXCEPT !.parent[c] = p, !.children[p] = ListInsert(@, i, c)]

\* Node.delete_child.
delete_child(h, p, i) ==
    [h EXCEPT !.parent[h.children[p][i + 1]] = None,
              !.children[p] = ListDelete(@, i)]

\* Node.delete: the node leaves its parent's child list.
delete(h, n) == delete_child(h, h.parent[n], index(h, n))

RECURSIVE Reparent(_, _, _, _)
Reparent(par, kids, i, p) ==
    IF i > Len(kids) THEN par
    ELSE Reparent([par EXCEPT ![kids[i]] = p], kids, i + 1, p)

node_replace_by_last(h, n, m) ==
    LET p == h.parent[n]
        g == [h EXCEPT !.value[n] = h.value[m],
                       !.children[n] = h.children[m],
                       !.parent = Reparent(@, h.children[m], 1, n)]
    IN  IF p = None THEN g
        ELSE [g EXCEPT !.children[p] = Append(ListDelete(@, index(h, n)), n)]

\* Node.replace_by: the node takes the other node's value and children, in place.
node_replace_by(h, n, m) ==
    [h EXCEPT !.value[n] = h.value[m],
              !.children[n] = h.children[m],
              !.parent = Reparent(@, h.children[m], 1, n)]

\* ------------------------------------------------------------- base.py
\* Tree._node_children (all children) and Subtree._node_children (the members
\* among them): `nodes` is Node for a Tree and _nodes for a Subtree.
node_children(ch, nodes, n) == SelectSeq(ch[n], LAMBDA c : c \in nodes)

Event(k, n) == [kind |-> k, node |-> n]

\* TreeBase.traverse: the events in order. `tuple` tells whether _node_children
\* returns a tuple (Tree: empty is false) or a filter object (Subtree: always
\* true, so down and up are signalled for every node).
RECURSIVE generate(_, _, _, _), generate_children(_, _, _, _, _)
generate(ch, nodes, tuple, context) ==
    LET kids == node_children(ch, nodes, context)
    IN  <<Event("node", context)>> \o
        (IF (IF tuple THEN kids # <<>> ELSE TRUE)
         THEN <<Event("down", None)>>
              \o generate_children(ch, nodes, tuple, kids, 1)
              \o <<Event("up", None)>>
         ELSE <<>>)
generate_children(ch, nodes, tuple, kids, i) ==
    IF i > Len(kids) THEN <<>>
    ELSE (IF i # 1 THEN <<Event("right", None)>> ELSE <<>>)
         \o generate(ch, nodes, tuple, kids[i])
         \o generate_children(ch, nodes, tuple, kids, i + 1)

\* TreeBase.preorder: traverse with a node callback only.
RECURSIVE NodesOf(_)
NodesOf(events) ==
    IF events = <<>> THEN <<>>
    ELSE (IF Head(events).kind = "node" THEN <<Head(events).node>> ELSE <<>>)
         \o NodesOf(Tail(events))

tree_preorder(h, r) == NodesOf(generate(h.children, Node, TRUE, r))
subtree_preorder(h, s) == NodesOf(generate(h.children, s.nodes, FALSE, s.root))

\* TreeBase.leaves (find_leaves lists the children, so empty is false here).
RECURSIVE find_leaves(_, _, _), find_leaves_of(_, _, _, _)
find_leaves(ch, nodes, n) ==
    LET kids == node_children(ch, nodes, n)
    IN  IF kids # <<>> THEN find_leaves_of(ch, nodes, kids, 1) ELSE <<n>>
find_leaves_of(ch, nodes, kids, i) ==
    IF i > Len(kids) THEN <<>>
    ELSE find_leaves(ch, nodes, kids[i]) \o find_leaves_of(ch, nodes, kids, i + 1)

tree_leaves(h, r) == find_leaves(h.children, Node, r)
subtree_leaves(h, s) == find_leaves(h.children, s.nodes, s.root)

Range(s) == {s[i] : i \in 1..Len(s)}

\* TreeBase.inner of a Subtree: the members that are not leaves, in pre-order.
subtree_inner(h, s) ==
    SelectSeq(subtree_preorder(h, s), LAMBDA n : n \notin Range(subtree_leaves(h, s)))

\* ------------------------------------------------------------ trees.py
\* A variant of connected_leaves that takes every member with children.
connected_leaves_of_all_members(h, s) ==
    SelectSeq(subtree_preorder(h, s), LAMBDA leaf : h.children[leaf] # <<>>)

\* Subtree.connected_leaves.
connected_leaves(h, s) ==
    SelectSeq(subtree_leaves(h, s), LAMBDA leaf : h.children[leaf] # <<>>)

\* Position of node n in sequence s (1-based).
PosIn(s, n) == CHOOSE i \in 1..Len(s) : s[i] = n

\* Subtree.to_tree, make_tree: Node(value, children) creates the copy of a member
\* and then adds the copies of its member children, so the copies are created in
\* the subtree's pre-order: the copy of the i-th member is node u + i.
make_tree_shallow(h, u, s, order, i) ==
    node_children(h.children, s.nodes, order[i])

make_tree(h, u, s, order, i) ==
    LET kids == node_children(h.children, s.nodes, order[i])
    IN  [j \in 1..Len(kids) |-> u + PosIn(order, kids[j])]

RECURSIVE make_nodes(_, _, _, _, _)
make_nodes(h, u, s, order, i) ==
    IF i > Len(order) THEN h
    ELSE LET kids == make_tree(h, u, s, order, i)
         IN  make_nodes([h EXCEPT !.value[u + i] = h.value[order[i]],
                                  !.children[u + i] = kids,
                                  !.parent = Reparent(@, kids, 1, u + i)],
                        u, s, order, i + 1)

\* to_tree with `u` nodes in use: the heap with the copy in it, the copy's root
\* (None for an empty subtree) and the number of nodes created.
to_tree(h, u, s) ==
    IF s.root = None THEN [heap |-> h, root |-> None, count |-> 0]
    ELSE LET order == subtree_preorder(h, s)
         IN  [heap  |-> make_nodes(h, u, s, order, 1),
              root  |-> u + 1,
              count |-> Len(order)]

\* A node that was never created, or that nothing refers to any more.
Blank(h, u) ==
    [value    |-> [n \in Node |-> IF n > u THEN "" ELSE h.value[n]],
     parent   |-> [n \in Node |-> IF n > u THEN None ELSE h.parent[n]],
     children |-> [n \in Node |-> IF n > u THEN <<>> ELSE h.children[n]]]

\* Subtree.remove_node on the member set (the root is kept by ToOneNode).
remove_node(s, n) ==
    [root |-> IF n = s.root THEN None ELSE s.root, nodes |-> s.nodes \ {n}]

\* ---------------------------------------------------------- replace.py
all_strategies_one_node_first ==
    <<"ToOneNode", "SameShape", "NoConnectedLeaves", "SameLeafCount",
      "SameConnectedCount">>

\* ReplaceStrategy.all_strategies.
all_strategies ==
    <<"SameShape", "ToOneNode", "NoConnectedLeaves", "SameLeafCount",
      "SameConnectedCount">>

\* ReplaceStrategy._inner_nonsubtree_child.
RECURSIVE Chain(_, _)
Chain(seqs, i) == IF i > Len(seqs) THEN <<>> ELSE seqs[i] \o Chain(seqs, i + 1)

inner_nonsubtree_child(h, s) ==
    LET inner == subtree_inner(h, s)
        inner_children == Chain([i \in 1..Len(inner) |-> h.children[inner[i]]], 1)
    IN  \E i \in 1..Len(inner_children) : inner_children[i] \notin s.nodes

\* SameShape.test, the dict `generate`: every lambda of the comprehension reads
\* the comprehension's variable k when it is called, after the loop has left it
\* at its last value 'up'.
generate_callback(kind) == "up"

Markers(events) == [i \in 1..Len(events) |-> generate_callback(events[i].kind)]

\* all(x == y for x, y in zip_longest(a, b)): the shorter one is padded with None.
all_equal_zip_longest(a, b) ==
    LET at(s, i) == IF i <= Len(s) THEN s[i] ELSE "None"
    IN  \A i \in 1..Max(Len(a), Len(b)) : at(a, i) = at(b, i)

SameShape_test(h, u, s, n) ==
    LET copy == to_tree(h, u, s)
        subtree == Markers(generate(copy.heap.children, Node, TRUE, copy.root))
        replacement == Markers(generate(copy.heap.children, Node, TRUE, n))
    IN  [holds |-> all_equal_zip_longest(subtree, replacement),
         heap  |-> Blank(copy.heap, u)]

\* SameShape.apply: zip stops at the shorter pre-order.
RECURSIVE copy_values(_, _, _, _)
copy_values(h, olds, news, i) ==
    IF i > Min(Len(olds), Len(news)) THEN h
    ELSE copy_values([h EXCEPT !.value[olds[i]] = h.value[news[i]]], olds, news, i + 1)

SameShape_apply(h, s, n) ==
    [heap |-> copy_values(h, subtree_preorder(h, s), tree_preorder(h, n), 1),
     old  |-> s]

\* ToOneNode.test.
ToOneNode_test(h, s, n) == h.children[n] = <<>>

\* ToOneNode.apply: one leaf of the for loop. The leaf's children (a tuple taken
\* before the loop) are inserted, last first, at the leaf's index.
RECURSIVE insert_reversed(_, _, _, _, _)
insert_reversed(h, p, kids, i, at) ==
    IF i = 0 THEN h
    ELSE insert_reversed(insert_child(h, p, kids[i], at), p, kids, i - 1, at)

lift_leaf_without_children(h, leaf) == delete(h, leaf)

lift_leaf(h, leaf) ==
    delete(insert_reversed(h, h.parent[leaf], h.children[leaf],
                           Len(h.children[leaf]), index(h, leaf)), leaf)

RECURSIVE remove_leaves(_, _, _, _)
remove_leaves(h, s, leaves, i) ==
    IF i > Len(leaves) THEN [heap |-> h, old |-> s]
    ELSE remove_leaves(lift_leaf(h, leaves[i]), remove_node(s, leaves[i]),
                       leaves, i + 1)

RECURSIVE collapse(_, _)
collapse(h, s) ==
    IF Cardinality(s.nodes) > 1
    THEN LET r == remove_leaves(h, s, subtree_leaves(h, s), 1)
         IN  collapse(r.heap, r.old)
    ELSE [heap |-> h, old |-> s]

ToOneNode_apply(h, s, n) ==
    LET r == collapse(h, s)
    IN  [heap |-> [r.heap EXCEPT !.value[r.old.root] = h.value[n]], old |-> r.old]

\* NoConnectedLeaves.test / apply.
NoConnectedLeaves_test(h, s, n) ==
    connected_leaves(h, s) = <<>> /\ ~inner_nonsubtree_child(h, s)

NoConnectedLeaves_apply(h, s, n) ==
    [heap |-> node_replace_by(h, s.root, n), old |-> s]

\* LeafCountStrategy.test / apply, with _leaves of the two subclasses.
strategy_leaves(name, h, s) ==
    IF name = "SameLeafCount" THEN subtree_leaves(h, s) ELSE connected_leaves(h, s)

LeafCount_test(name, h, s, n) ==
    Len(strategy_leaves(name, h, s)) = Len(tree_leaves(h, n))
    /\ ~inner_nonsubtree_child(h, s)

RECURSIVE add_children(_, _, _, _)
add_children(h, p, kids, i) ==
    IF i > Len(kids) THEN h
    ELSE add_children(add_child(h, p, kids[i]), p, kids, i + 1)

RECURSIVE move_leaf_children(_, _, _, _)
move_leaf_children(h, olds, news, i) ==
    IF i > Min(Len(olds), Len(news)) THEN h
    ELSE move_leaf_children(add_children(h, news[i], h.children[olds[i]], 1),
                            olds, news, i + 1)

LeafCount_apply_roots_only(name, h, s, n) ==
    [heap |-> node_replace_by(h, s.root, n), old |-> s]

LeafCount_apply(name, h, s, n) ==
    [heap |-> node_replace_by(
                  move_leaf_children(h, strategy_leaves(name, h, s),
                                     tree_leaves(h, n), 1),
                  s.root, n),
     old  |-> s]

\* strategy(self, tree).test() for the strategy of that name.
strategy_test(name, h, u, s, n) ==
    CASE name = "SameShape" -> SameShape_test(h, u, s, n)
      [] name = "ToOneNode" -> [holds |-> ToOneNode_test(h, s, n), heap |-> h]
      [] name = "NoConnectedLeaves" ->
             [holds |-> NoConnectedLeaves_test(h, s, n), heap |-> h]
      [] OTHER -> [holds |-> LeafCount_test(name, h, s, n), heap |-> h]

\* replacer.apply() for the strategy of that name.
strategy_apply(name, h, s, n) ==
    CASE name = "SameShape" -> SameShape_apply(h, s, n)
      [] name = "ToOneNode" -> ToOneNode_apply(h, s, n)
      [] name = "NoConnectedLeaves" -> NoConnectedLeaves_apply(h, s, n)
      [] OTHER -> LeafCount_apply(name, h, s, n)

\* ------------------------------------------------------- instructions.py
\* An instruction: its class (op) and its attributes. `origin` is no attribute of
\* the class: it records which back-reference generated the instruction (0: the
\* compiler; n: the node callback of Reference n; -n: its up callback).
Instr(o, e, a, n, r, g) ==
    [op |-> o, expression |-> e, arg |-> a, number |-> n, relation |-> r,
     origin |-> g]

\* Find(expression, **instr_vars): `arg` is the constant of the expression or
\* the value bound to `ref`.
Find(e, a) == Instr("Find", e, a, 0, "", 0)
SetRelation(r) == Instr("SetRelation", "", "", 0, r, 0)
GroupStart(n) == Instr("GroupStart", "", "", n, "", 0)
GroupEnd(n) == Instr("GroupEnd", "", "", n, "", 0)
SearchReference(n) == Instr("SearchReference", "", "", n, "", 0)
AddNode(e, a) == Instr("AddNode", e, a, 0, "", 0)
AddReference(n) == Instr("AddReference", "", "", n, "", 0)
GoToParent == Instr("GoToParent", "", "", 0, "", 0)

\* ----------------------------------------------------------- compiler.py
\* A token of a rule text: the grammar rule that matches it and its text.
Token(t, v, n) == [t |-> t, v |-> v, n |-> n]
AnyNode == Token("any", ".", 0)
Constant(c) == Token("constant", c, 0)
Reference(n) == Token("reference_num", "", n)
GroupOpen == Token("group_start", "{", 0)
GroupClose == Token("group_end", "}", 0)
ChildRel == Token("child", "<", 0)
SiblingRel == Token("sibling", "&", 0)
NextSiblingRel == Token("next_sibling", ",", 0)
ParentAny == Token("parent_any", ">", 0)
\* A code node [$n] of a replacement: the value of group n's root.
GroupValue(n) == Token("python_code", "$", n)

\* InstructionGenerator.__init__ / SearchGenerator.__init__.
NewGenerator ==
    [instructions |-> <<>>, child_level |-> 0, started_group |-> 0,
     ended_groups |-> {}, error |-> "none"]

SetMax(S) == CHOOSE x \in S : \A y \in S : y <= x

\* InstructionGenerator._check_child_level.
check_child_level(g) ==
    IF g.child_level < 0 THEN [g EXCEPT !.error = "CompileError"] ELSE g

\* InstructionGenerator._add.
add(g, instruction) == [g EXCEPT !.instructions = Append(@, instruction)]

\* A variant of group_ended that accepts every group opened so far.
group_ended_or_started(g, group_num) == group_num \in 1..g.started_group

\* SearchGenerator.visit_reference_num: the closing brace of the group was seen.
group_ended(g, group_num) == group_num \in g.ended_groups

\* SearchGenerator: the visit_ method of one token (a code node is Find(text)).
search_visit(g, tok) ==
    CASE tok.t = "any" -> add(g, Find("True", ""))
      [] tok.t = "python_code" -> add(g, Find(tok.v, ""))
      [] tok.t = "constant" -> add(g, Find("str(_) == str(c)", tok.v))
      [] tok.t = "reference_num" ->
             IF ~group_ended(g, tok.n)
             THEN [g EXCEPT !.error = "CompileError"]
             ELSE add(g, SearchReference(tok.n))
      [] tok.t = "group_start" ->
             add([g EXCEPT !.started_group = @ + 1], GroupStart(g.started_group + 1))
      [] tok.t = "group_end" ->
             LET end == SetMax((1..g.started_group) \ g.ended_groups)
             IN  add([g EXCEPT !.ended_groups = @ \cup {end}], GroupEnd(end))
      [] tok.t = "child" ->
             [add(g, SetRelation("Child")) EXCEPT !.child_level = @ + 1]
      [] tok.t = "sibling" -> add(g, SetRelation("Sibling"))
      [] tok.t = "next_sibling" -> add(g, SetRelation("NextSibling"))
      [] tok.t = "parent_any" ->
             check_child_level(
                 [add(add(g, SetRelation("Parent")), Find("True", ""))
                     EXCEPT !.child_level = @ - 1])
      [] OTHER -> g

\* BuildGenerator: the visit_ method of one token (a token it has no method
\* for, such as `any`, goes to generic_visit and adds nothing).
build_visit(g, tok) ==
    CASE tok.t = "constant" -> add(g, AddNode("repr(c)", tok.v))
      [] tok.t = "python_code" -> add(g, Instr("AddNode", "$n", "", tok.n, "", 0))
      [] tok.t = "reference_num" -> add(g, AddReference(tok.n))
      [] tok.t = "child" ->
             [add(g, SetRelation("Child")) EXCEPT !.child_level = @ + 1]
      [] tok.t = "next_sibling" -> add(g, SetRelation("NextSibling"))
      [] tok.t = "parent_any" ->
             check_child_level([add(g, GoToParent) EXCEPT !.child_level = @ - 1])
      [] OTHER -> g

\* NodeVisitor.visit over the parse tree: the visit_ methods run in text order;
\* an exception of one of them ends the compilation.
RECURSIVE visit_search(_, _, _), visit_build(_, _, _)
visit_search(g, tokens, i) ==
    IF i > Len(tokens) \/ g.error # "none" THEN g
    ELSE visit_search(search_visit(g, tokens[i]), tokens, i + 1)
visit_build(g, tokens, i) ==
    IF i > Len(tokens) \/ g.error # "none" THEN g
    ELSE visit_build(build_visit(g, tokens[i]), tokens, i + 1)

\* Compiler.compile_pattern / compile_replacement: the list a first call with
\* that text returns (lru_cache hands the same list object to later calls).
compile_pattern(tokens) == visit_search(NewGenerator, tokens, 1).instructions
compile_replacement(tokens) == visit_build(NewGenerator, tokens, 1).instructions

\* Compiler.compile_rule.
compile_rule(text) ==
    [search |-> compile_pattern(text.pattern),
     replace |-> compile_replacement(text.replacement)]

\* ---------------------------------------------------------- relations.py
\* relation().search(node) of the relation class of that name.
relation_search(h, r, n) ==
    CASE r = "Child" -> h.children[n]
      [] r = "Sibling" ->
             IF h.parent[n] # None
             THEN SelectSeq(h.children[h.parent[n]], LAMBDA x : x # n)
             ELSE <<>>
      [] r = "NextSibling" ->
             IF h.parent[n] # None /\ Len(h.children[h.parent[n]]) > index(h, n) + 1
             THEN <<h.children[h.parent[n]][index(h, n) + 2]>>
             ELSE <<>>
      [] r = "Parent" -> IF h.parent[n] # None THEN <<h.parent[n]>> ELSE <<>>
      [] r = "Descendant" -> tree_preorder(h, n)
      [] OTHER -> <<n>>

\* ------------------------------------------------- trees.py: Subtree
EmptySubtree == [root |-> None, nodes |-> {}]

\* A variant of add_node_raises that raises for every node outside the set.
add_node_raises_for_every_non_member(h, s, n) ==
    /\ ~(s.root = None \/ n = h.parent[s.root])
    /\ n \notin s.nodes

\* Subtree.add_node: whether it raises SubtreeError, and the subtree after it.
add_node_raises(h, s, n) ==
    /\ ~(s.root = None \/ n = h.parent[s.root])
    /\ h.parent[n] \notin s.nodes
    /\ n \notin s.nodes

add_node(h, s, n) ==
    [root  |-> IF s.root = None \/ n = h.parent[s.root] THEN n ELSE s.root,
     nodes |-> s.nodes \cup {n}]

\* ------------------------------------------------------------- search.py
\* SearchBranch.__init__: `shared` tells that self.instructions is the very list
\* the machine was given (the compiler's), not a copy; `trail` is no attribute of
\* the class: it records the nodes found so far, with the origin of each Find.
SearchBranch(n) ==
    [groups |-> {0}, match |-> <<EmptySubtree>>, node |-> n,
     relation |-> "Descendant", instructions |-> <<>>, shared |-> TRUE,
     trail |-> <<>>]

\* A variant of branch_copy whose copy refers to the list of the original.
branch_copy_sharing_list(b, instrs) == [b EXCEPT !.instructions = instrs]

\* SearchBranch.copy: Subtree.copy keeps root and node set; the instruction
\* list is sliced, so the copy owns its list.
branch_copy(b, instrs) ==
    [b EXCEPT !.instructions = instrs, !.shared = FALSE]

evaluate_find_any_value(h, instr, n) == TRUE

\* Find._evaluate_code on a candidate node.
evaluate_find(h, instr, n) ==
    CASE instr.expression = "True" -> TRUE
      [] instr.expression = "False" -> FALSE
      [] OTHER -> h.value[n] = instr.arg

\* Find._matching_nodes.
matching_nodes_last_first(h, b, instr) ==
    LET found == SelectSeq(relation_search(h, b.relation, b.node),
                           LAMBDA n : evaluate_find(h, instr, n))
    IN  [i \in DOMAIN found |-> found[Len(found) + 1 - i]]

matching_nodes(h, b, instr) ==
    SelectSeq(relation_search(h, b.relation, b.node),
              LAMBDA n : evaluate_find(h, instr, n))

found_branch_every_group(h, b, instrs, instr, n) ==
    LET c == branch_copy(b, instrs)
    IN  [c EXCEPT !.match = [k \in DOMAIN c.match |-> add_node(h, c.match[k], n)],
                  !.node = n,
                  !.trail = Append(@, [node |-> n, origin |-> instr.origin])]

\* Find.execute, the body of the loop for one matching node: the copy with the
\* node added to the subtree of every open group.
found_branch(h, b, instrs, instr, n) ==
    LET c == branch_copy(b, instrs)
    IN  [c EXCEPT !.match = [k \in DOMAIN c.match |->
                                IF (k - 1) \in c.groups
                                THEN add_node(h, c.match[k], n) ELSE c.match[k]],
                  !.node = n,
                  !.trail = Append(@, [node |-> n, origin |-> instr.origin])]

\* A variant of find_error with which no found node raises.
find_error_never_raising(h, b, n) == "none"

\* The exception Find.execute raises for that node, "none" if it raises none:
\* match.group(g) indexes the list of subtrees with the group number, and the
\* set of small group numbers is gone through in ascending order, the groups
\* that have a subtree before those that have none.
find_error(h, b, n) ==
    IF \E g \in b.groups : g + 1 <= Len(b.match) /\ add_node_raises(h, b.match[g + 1], n)
    THEN "SubtreeError"
    ELSE IF \E g \in b.groups : g + 1 > Len(b.match) THEN "IndexError"
         ELSE "none"

\* A variant of reference_callback that refers to the group again for a node.
reference_callback_referring_again(h, ev, number) ==
    CASE ev.kind = "node" -> <<SearchReference(number)>>
      [] ev.kind = "down" -> <<SetRelation("Child")>>
      [] ev.kind = "right" -> <<SetRelation("NextSibling")>>
      [] OTHER -> <<SetRelation("Parent"), Instr("Find", "True", "", 0, "", 0 - number)>>

\* SearchReference.execute: the instructions generated from the traversal of
\* the group's copy.
reference_callback(h, ev, number) ==
    CASE ev.kind = "node" ->
             <<Instr("Find", "_ == ref", h.value[ev.node], 0, "", number)>>
      [] ev.kind = "down" -> <<SetRelation("Child")>>
      [] ev.kind = "right" -> <<SetRelation("NextSibling")>>
      [] OTHER -> <<SetRelation("Parent"), Instr("Find", "True", "", 0, "", 0 - number)>>

RECURSIVE generated(_, _, _, _)
generated(h, events, i, number) ==
    IF i > Len(events) THEN <<>>
    ELSE reference_callback(h, events[i], number) \o generated(h, events, i + 1, number)

\* (the copy and its traversal are bound as elements of one-element sets, so
\* that each is computed once)
reference_instructions(h, u, s, number) ==
    CHOOSE list \in
        UNION {{generated(copy.heap, events, 1, number) :
                   events \in {generate(copy.heap.children, Node, TRUE, copy.root)}} :
               copy \in {to_tree(h, u, s)}} : TRUE

\* ------------------------------------------- trees.py: Subtree.replace_by
\* One pass of the for loop: the strategy's test holds, apply() is next.
TestHolds ==
    /\ pc = "rb_test"
    /\ new # None /\ old.root # None
    /\ LET t == strategy_test(all_strategies[strategy], Heap, used, old, new)
       IN  /\ t.holds
           /\ value' = t.heap.value
           /\ parent' = t.heap.parent
           /\ children' = t.heap.children
    /\ pc' = "rb_apply"
    /\ UNCHANGED <<used, root, err, rbvars, call0, compilervars, searchvars,
                   drivervars, vm, log>>

\* The strategy's test fails and another strategy is left.
TestFails ==
    /\ pc = "rb_test"
    /\ new # None /\ old.root # None
    /\ strategy < Len(all_strategies)
    /\ LET t == strategy_test(all_strategies[strategy], Heap, used, old, new)
       IN  /\ ~t.holds
           /\ value' = t.heap.value
           /\ parent' = t.heap.parent
           /\ children' = t.heap.children
    /\ strategy' = strategy + 1
    /\ UNCHANGED <<used, root, pc, err, old, new, applied, call0, compilervars,
                   searchvars, drivervars, vm, log>>

\* The last strategy's test fails: raise ReplaceError("Ambiguous replacement").
RaiseAmbiguous ==
    /\ pc = "rb_test"
    /\ new # None /\ old.root # None
    /\ strategy = Len(all_strategies)
    /\ LET t == strategy_test(all_strategies[strategy], Heap, used, old, new)
       IN  /\ ~t.holds
           /\ value' = t.heap.value
           /\ parent' = t.heap.parent
           /\ children' = t.heap.children
    /\ pc' = "raised"
    /\ err' = "ReplaceError"
    /\ UNCHANGED <<used, root, rbvars, call0, compilervars, searchvars,
                   drivervars, vm, log>>

\* replacer.apply() of the strategy of that name, then return.
Apply(name) ==
    /\ pc = "rb_apply"
    /\ all_strategies[strategy] = name
    /\ LET r == strategy_apply(name, Heap, old, new)
       IN  /\ value' = r.heap.value
           /\ parent' = r.heap.parent
           /\ children' = r.heap.children
           /\ old' = r.old
    /\ applied' = Append(applied, name)
    /\ pc' = "rb_done"
    /\ UNCHANGED <<used, root, err, new, strategy, call0, compilervars,
                   searchvars, drivervars, vm, log>>

ApplySameShape == Apply("SameShape")
ApplyToOneNode == Apply("ToOneNode")
ApplyNoConnectedLeaves == Apply("NoConnectedLeaves")
ApplySameLeafCount == Apply("SameLeafCount")
ApplySameConnectedCount == Apply("SameConnectedCount")

\* The replacement is no tree (None) or the subtree is empty: the first test
\* reads an attribute of None.
TestRaises ==
    /\ pc = "rb_test"
    /\ new = None \/ old.root = None
    /\ pc' = "raised"
    /\ err' = "AttributeError"
    /\ UNCHANGED <<heapvars, rbvars, call0, compilervars, searchvars, drivervars,
                   vm, log>>

\* -------------------------------------------- search.py: SearchMachine
\* Whether k more nodes can be created.
Room(k) == used + k <= MaxNode

\* The list branch.instructions refers to.
instructions_of(b) == IF b.shared THEN rules[rule].search ELSE b.instructions

\* branch.instructions.pop(0): on the list the branch refers to.
popped(b) == IF b.shared THEN b ELSE [b EXCEPT !.instructions = Tail(@)]
rules_popped(b) ==
    IF b.shared THEN [rules EXCEPT ![rule].search = Tail(@)] ELSE rules

\* The branch and the instruction of the for loop's pass.
branch == branches[cursor]
instruction == Head(instructions_of(branch))

Executing(name) ==
    /\ pc = "search_for"
    /\ cursor <= Len(branches)
    /\ instructions_of(branch) # <<>>
    /\ instruction.op = name

\* while any(branch.instructions ...): a round begins.
RoundBegins ==
    /\ pc = "search_while"
    /\ \E i \in DOMAIN branches : instructions_of(branches[i]) # <<>>
    /\ new_branches' = <<>>
    /\ cursor' = 1
    /\ pc' = "search_for"
    /\ UNCHANGED <<heapvars, err, rbvars, call0, compilervars, branches,
                   drivervars, vm, log>>

\* Find.execute: one copy of the branch per matching node replaces the branch;
\* add_node of a disconnected node raises out of the search.
ExecFind ==
    /\ Executing("Find")
    /\ LET rest == Tail(instructions_of(branch))
           nodes == matching_nodes(Heap, branch, instruction)
           errors == [i \in DOMAIN nodes |-> find_error(Heap, branch, nodes[i])]
           failing == {i \in DOMAIN nodes : errors[i] # "none"}
       IN  IF failing # {}
           THEN /\ err' = errors[CHOOSE i \in failing : \A j \in failing : i <= j]
                /\ pc' = "raised"
                /\ UNCHANGED <<new_branches, cursor>>
           ELSE /\ new_branches' = new_branches \o
                       [i \in DOMAIN nodes |->
                           found_branch(Heap, branch, rest, instruction, nodes[i])]
                /\ cursor' = cursor + 1
                /\ UNCHANGED <<pc, err>>
    /\ rules' = rules_popped(branch)
    /\ UNCHANGED <<heapvars, rbvars, call0, source, branches, drivervars, vm, log>>

\* An instruction whose execute returns None: the branch itself goes on.
Continue(b) ==
    /\ new_branches' = Append(new_branches, b)
    /\ cursor' = cursor + 1
    /\ UNCHANGED <<heapvars, pc, err, rbvars, call0, source, branches,
                   drivervars, vm, log>>

\* SetRelation.execute on a branch.
ExecSetRelation ==
    /\ Executing("SetRelation")
    /\ rules' = rules_popped(branch)
    /\ Continue([popped(branch) EXCEPT !.relation = instruction.relation])

\* GroupStart.execute.
ExecGroupStart ==
    /\ Executing("GroupStart")
    /\ rules' = rules_popped(branch)
    /\ Continue([popped(branch) EXCEPT !.groups = @ \cup {instruction.number},
                                       !.match = Append(@, EmptySubtree)])

\* GroupEnd.execute: set.remove raises KeyError for a group that is not open.
ExecGroupEnd ==
    /\ Executing("GroupEnd")
    /\ rules' = rules_popped(branch)
    /\ IF instruction.number \in branch.groups
       THEN Continue([popped(branch) EXCEPT !.groups = @ \ {instruction.number}])
       ELSE /\ err' = "KeyError"
            /\ pc' = "raised"
            /\ UNCHANGED <<heapvars, rbvars, call0, source, searchvars,
                           drivervars, vm, log>>

\* SearchReference.execute: the generated instructions are put in front of the
\* list the branch refers to.
ExecReference ==
    /\ Executing("SearchReference")
    /\ Room(MaxHost)
    /\ LET number == instruction.number
           rest == Tail(instructions_of(branch))
       IN  IF number + 1 > Len(branch.match) \/ branch.match[number + 1].root = None
           THEN /\ err' = IF number + 1 > Len(branch.match)
                          THEN "IndexError" ELSE "AttributeError"
                /\ pc' = "raised"
                /\ rules' = rules_popped(branch)
                /\ UNCHANGED <<heapvars, rbvars, call0, source, searchvars,
                               drivervars, vm, log>>
           ELSE LET all == reference_instructions(Heap, used,
                                                  branch.match[number + 1], number)
                           \o rest
                IN  /\ rules' = IF branch.shared
                                THEN [rules EXCEPT ![rule].search = all] ELSE rules
                    /\ Continue(IF branch.shared THEN branch
                                ELSE [branch EXCEPT !.instructions = all])

\* A branch without instructions is kept as it is.
KeepFinished ==
    /\ pc = "search_for"
    /\ cursor <= Len(branches)
    /\ instructions_of(branch) = <<>>
    /\ rules' = rules
    /\ Continue(branch)

\* The for loop is over: self.branches = new_branches.
RoundEnds ==
    /\ pc = "search_for"
    /\ cursor > Len(branches)
    /\ branches' = new_branches
    /\ pc' = "search_while"
    /\ UNCHANGED <<heapvars, err, rbvars, call0, compilervars, new_branches,
                   cursor, drivervars, vm, log>>

\* What the caller of search() does with the returned list: Tree.search returns
\* it, Tree.replace and Tree.transform hand it to Match.check_disjoint.
pc_after_search_unchecked == IF op = "search" THEN "idle" ELSE "for_match"
pc_after_search == IF op = "search" THEN "idle" ELSE "check_disjoint"

\* What a returning call leaves in the log.
Returned(result) == [result |-> result, replaced |-> Len(applied)]

\* No branch has an instruction left: return the matches of the branches.
SearchReturns ==
    /\ pc = "search_while"
    /\ \A i \in DOMAIN branches : instructions_of(branches[i]) = <<>>
    /\ matches' = [i \in DOMAIN branches |-> branches[i].match]
    /\ match' = 1
    /\ pc' = pc_after_search
    /\ log' = IF op = "search" THEN Append(log, Returned(matches')) ELSE log
    /\ UNCHANGED <<heapvars, err, rbvars, call0, compilervars, searchvars, op,
                   rule, rule_matched, vm>>

\* ------------------------------------------------- Match.check_disjoint
\* Whether the whole-match subtrees of two of the matches share a node.
overlapping(ms) ==
    \E i, j \in DOMAIN ms : i < j /\ ms[i][1].nodes \cap ms[j][1].nodes # {}

\* Match.check_disjoint(matches) raises OverlappingMatches.
RaiseOverlapping ==
    /\ pc = "check_disjoint"
    /\ overlapping(matches)
    /\ pc' = "raised"
    /\ err' = "OverlappingMatches"
    /\ UNCHANGED <<heapvars, rbvars, call0, compilervars, searchvars, drivervars,
                   vm, log>>

\* Match.check_disjoint(matches) returns: the for loop over the matches is next.
CheckDisjoint ==
    /\ pc = "check_disjoint"
    /\ ~overlapping(matches)
    /\ pc' = "for_match"
    /\ UNCHANGED <<heapvars, err, rbvars, call0, compilervars, searchvars,
                   drivervars, vm, log>>

\* -------------------------------------------------------------- build.py
\* BuildMachine.__init__: node, relation and tree are None; self.instructions
\* is the list it was given (rules[rule].replace), self.match is matches[match].
BuildMachine == [node |-> None, relation |-> "None", tree |-> None]

\* relation().build(context, node) of the machine's relation: the heap after it
\* and the exception it raises ("none" if none).
relation_build(h, r, context, node) ==
    IF r = "None" THEN [heap |-> h, error |-> "TypeError"]
    ELSE IF context = None THEN [heap |-> h, error |-> "AttributeError"]
    ELSE CASE r = "Child" -> [heap |-> add_child(h, context, node), error |-> "none"]
           [] r = "NextSibling" ->
                  IF h.parent[context] = None
                  THEN [heap |-> h, error |-> "AttributeError"]
                  ELSE [heap  |-> insert_child(h, h.parent[context], node,
                                               index(h, context) + 1),
                        error |-> "none"]
           [] OTHER -> [heap |-> h, error |-> "AttributeError"]

Step(h, u, m, e) == [heap |-> h, used |-> u, vm |-> m, error |-> e]

\* AddNode._evaluate_code: the value of the new node and the exception raised.
evaluate_add(h, m, instr) ==
    IF instr.expression = "$n"
    THEN IF instr.number + 1 > Len(m) THEN [value |-> "", error |-> "IndexError"]
         ELSE IF m[instr.number + 1].root = None
              THEN [value |-> "", error |-> "AttributeError"]
              ELSE [value |-> h.value[m[instr.number + 1].root], error |-> "none"]
    ELSE [value |-> instr.arg, error |-> "none"]

\* AddNode.execute.
AddNode_execute(h, u, m, machine, instr) ==
    LET v == evaluate_add(h, m, instr)
        node == u + 1
        created == [h EXCEPT !.value[node] = v.value]
    IN  IF v.error # "none" THEN Step(h, u, machine, v.error)
        ELSE IF m[1].root = None THEN Step(h, u, machine, "TypeError")
        ELSE IF machine.tree = None
             THEN Step(created, u + 1, [machine EXCEPT !.tree = node, !.node = node],
                       "none")
             ELSE LET b == relation_build(created, machine.relation, machine.node, node)
                  IN  Step(b.heap, u + 1, [machine EXCEPT !.node = node], b.error)

AddReference_execute_without_copy(h, u, m, machine, instr) ==
    IF instr.number + 1 > Len(m) THEN Step(h, u, machine, "IndexError")
    ELSE LET group == m[instr.number + 1].root
         IN  IF group = None
             THEN Step(h, u, machine, "AttributeError")
             ELSE IF machine.tree = None
                  THEN Step(h, u, [machine EXCEPT !.tree = group, !.node = group], "none")
                  ELSE LET b == relation_build(h, machine.relation, machine.node, group)
                       IN  Step(b.heap, u, [machine EXCEPT !.node = group], b.error)

\* AddReference.execute.
AddReference_execute(h, u, m, machine, instr) ==
    IF instr.number + 1 > Len(m) THEN Step(h, u, machine, "IndexError")
    ELSE LET tree == to_tree(h, u, m[instr.number + 1])
         IN  IF tree.root = None
             THEN Step(h, u, machine, "AttributeError")
             ELSE IF machine.tree = None
                  THEN Step(tree.heap, u + tree.count,
                            [machine EXCEPT !.tree = tree.root, !.node = tree.root],
                            "none")
                  ELSE LET b == relation_build(tree.heap, machine.relation,
                                               machine.node, tree.root)
                       IN  Step(b.heap, u + tree.count,
                                [machine EXCEPT !.node = tree.root], b.error)

\* GoToParent.execute.
GoToParent_execute(h, u, machine) ==
    IF machine.node = None THEN Step(h, u, machine, "AttributeError")
    ELSE Step(h, u, [machine EXCEPT !.node = h.parent[machine.node]], "none")

\* One pass of build()'s while loop: pop the first instruction of the list the
\* machine was given and execute it.
BuildStep(name, r) ==
    /\ pc = "build"
    /\ rules[rule].replace # <<>>
    /\ Head(rules[rule].replace).op = name
    /\ Room(1 + Cardinality(matches[match][1].nodes))
    /\ rules' = [rules EXCEPT ![rule].replace = Tail(@)]
    /\ value' = r.heap.value
    /\ parent' = r.heap.parent
    /\ children' = r.heap.children
    /\ used' = r.used
    /\ vm' = r.vm
    /\ err' = r.error
    /\ pc' = IF r.error = "none" THEN "build" ELSE "raised"
    /\ UNCHANGED <<root, rbvars, call0, source, searchvars, drivervars, log>>

ExecAddNode ==
    BuildStep("AddNode",
              AddNode_execute(Heap, used, matches[match], vm, Head(rules[rule].replace)))
ExecAddReference ==
    BuildStep("AddReference",
              AddReference_execute(Heap, used, matches[match], vm,
                                   Head(rules[rule].replace)))
ExecGoToParent == BuildStep("GoToParent", GoToParent_execute(Heap, used, vm))
BuildSetRelation ==
    BuildStep("SetRelation",
              Step(Heap, used, [vm EXCEPT !.relation = Head(rules[rule].replace).relation],
                   "none"))

\* build() returns self.tree, and match.group().replace_by(tree) is called.
BuildReturns ==
    /\ pc = "build"
    /\ rules[rule].replace = <<>>
    /\ Room(Cardinality(matches[match][1].nodes))
    /\ new' = vm.tree
    /\ old' = matches[match][1]
    /\ strategy' = 1
    /\ pc' = "rb_test"
    /\ UNCHANGED <<heapvars, err, applied, call0, compilervars, searchvars,
                   drivervars, vm, log>>

\* ------------------------------------------------- trees.py: the drivers
\* The caller's view at the time of a call.
Called ==
    [value |-> value, parent |-> parent, children |-> children, root |-> root,
     old |-> EmptySubtree, nodes |-> Range(tree_preorder(Heap, root)),
     program |-> rules, at_search |-> Heap]

\* Tree.search(pattern): compile_pattern returns the cached list, and a
\* SearchMachine is made of it.
CallSearch ==
    /\ pc = "idle"
    /\ op \in {"search", "replace"}
    /\ Len(log) < MaxCalls
    /\ rule' = 1
    /\ branches' = <<SearchBranch(root)>>
    /\ new_branches' = <<>>
    /\ cursor' = 0
    /\ call0' = Called
    /\ applied' = <<>>
    /\ pc' = "search_while"
    /\ UNCHANGED <<heapvars, err, old, new, strategy, compilervars, op,
                   rule_matched, matches, match, vm, log>>

\* Tree.transform(program): compile_rule returns the cached lists.
CallTransform ==
    /\ pc = "idle"
    /\ op = "transform"
    /\ Len(log) < MaxCalls
    /\ call0' = Called
    /\ applied' = <<>>
    /\ pc' = "t_pass"
    /\ UNCHANGED <<heapvars, err, old, new, strategy, compilervars, searchvars,
                   drivervars, vm, log>>

\* Tree.match(pattern): compile_pattern returns the cached list, and
\* SearchMachine(self.root, instrs, variables, relation=Identic) raises
\* TypeError: SearchMachine.__init__ takes node, instructions and variables.
CallMatch ==
    /\ pc = "idle"
    /\ op = "match"
    /\ Len(log) < MaxCalls
    /\ call0' = Called
    /\ applied' = <<>>
    /\ err' = "TypeError"
    /\ pc' = "raised"
    /\ UNCHANGED <<heapvars, old, new, strategy, compilervars, searchvars,
                   drivervars, vm, log>>

\* Tree.fullmatch(pattern): matches = self.match(pattern), which raises.
CallFullmatch ==
    /\ pc = "idle"
    /\ op = "fullmatch"
    /\ Len(log) < MaxCalls
    /\ call0' = Called
    /\ applied' = <<>>
    /\ err' = "TypeError"
    /\ pc' = "raised"
    /\ UNCHANGED <<heapvars, old, new, strategy, compilervars, searchvars,
                   drivervars, vm, log>>

\* while True: rule_matched = False, and the for loop over the rules begins.
PassBegins ==
    /\ pc = "t_pass"
    /\ rule_matched' = FALSE
    /\ rule' = 1
    /\ pc' = "t_rule"
    /\ UNCHANGED <<heapvars, err, rbvars, call0, compilervars, searchvars, op,
                   matches, match, vm, log>>

\* while matches: a SearchMachine for the rule's search list.
RuleSearch ==
    /\ pc = "t_rule"
    /\ rule <= Len(rules)
    /\ branches' = <<SearchBranch(root)>>
    /\ new_branches' = <<>>
    /\ cursor' = 0
    /\ call0' = [call0 EXCEPT !.at_search = Heap]
    /\ pc' = "search_while"
    /\ UNCHANGED <<heapvars, err, rbvars, compilervars, drivervars, vm, log>>

\* The for loop over the rules is over: break if no rule matched, else loop.
PassEnds ==
    /\ pc = "t_rule"
    /\ rule > Len(rules)
    /\ IF rule_matched
       THEN pc' = "t_pass" /\ log' = log
       ELSE pc' = "idle" /\ log' = Append(log, Returned(<<>>))
    /\ UNCHANGED <<heapvars, err, rbvars, call0, compilervars, searchvars,
                   drivervars, vm>>

\* for match in matches: a BuildMachine for the match and the replacement list.
MatchBuild ==
    /\ pc = "for_match"
    /\ match <= Len(matches)
    /\ vm' = BuildMachine
    /\ pc' = "build"
    /\ UNCHANGED <<heapvars, err, rbvars, call0, compilervars, searchvars,
                   drivervars, log>>

\* A variant of ReplaceByReturns in which transform searches again after each
\* replacement.
ReplaceByReturns_searching_again ==
    /\ pc = "rb_done"
    /\ op # "replace_by"
    /\ match' = IF op = "transform" THEN match ELSE match + 1
    /\ pc' = IF op = "transform" THEN "t_rule" ELSE "for_match"
    /\ UNCHANGED <<heapvars, err, rbvars, call0, compilervars, searchvars, op,
                   rule, rule_matched, matches, vm, log>>

\* replace_by returned: the next match.
ReplaceByReturns ==
    /\ pc = "rb_done"
    /\ op # "replace_by"
    /\ match' = match + 1
    /\ pc' = "for_match"
    /\ UNCHANGED <<heapvars, err, rbvars, call0, compilervars, searchvars, op,
                   rule, rule_matched, matches, vm, log>>

\* The for loop over the matches is over. Tree.replace returns; Tree.transform
\* searches again with the same rule if there were matches, else the next rule.
MatchesDone ==
    /\ pc = "for_match"
    /\ match > Len(matches)
    /\ IF op = "replace"
       THEN /\ pc' = "idle"
            /\ log' = Append(log, Returned(<<>>))
            /\ UNCHANGED <<rule, rule_matched>>
       ELSE /\ pc' = "t_rule"
            /\ log' = log
            /\ rule_matched' = (rule_matched \/ matches # <<>>)
            /\ rule' = IF matches # <<>> THEN rule ELSE rule + 1
    /\ UNCHANGED <<heapvars, err, rbvars, call0, compilervars, searchvars, op,
                   matches, match, vm>>

\* ------------------------------------------------------------ the inputs
\* The ordered trees of n nodes, as parent vectors over the pre-order numbering.
ParentVectors(n) ==
    {p \in [1..n -> 0..(n - 1)] :
        /\ p[1] = 0
        /\ \A i \in 2..n : /\ p[i] >= 1
                           /\ p[i] < i
                           /\ \A j \in (p[i] + 1)..(i - 1) : p[j] >= p[i]}

RECURSIVE SortedSeq(_)
SortedSeq(S) ==
    IF S = {} THEN <<>>
    ELSE LET m == CHOOSE x \in S : \A y \in S : x <= y
         IN  <<m>> \o SortedSeq(S \ {m})

\* The heap holding the tree of parent vector p at nodes base+1 .. base+n.
ParentIn(p, base, i) == IF p[i] = 0 THEN None ELSE base + p[i]
ChildrenIn(p, base, i) ==
    LET kids == SortedSeq({j \in DOMAIN p : p[j] = i})
    IN  [k \in 1..Len(kids) |-> base + kids[k]]

\* The connected non-empty node sets of the tree p, each with its root.
Subtrees(p) ==
    {s \in [root : DOMAIN p, nodes : SUBSET (DOMAIN p)] :
        /\ s.root \in s.nodes
        /\ \A i \in s.nodes \ {s.root} : p[i] \in s.nodes
        /\ p[s.root] \notin s.nodes}

\* The star a (b c d e), all of it matched, against the chain p (q (r (s))):
\* a subtree with more nodes than the replacement whose traversal is as long.
StarAgainstChain ==
    [n |-> 5, m |-> 4, p |-> <<0, 1, 1, 1, 1>>, q |-> <<0, 1, 2, 3>>,
     s |-> [root |-> 1, nodes |-> 1..5]]

\* The match of a < b, d in a (b (c) d (e)), replaced by a tree of a root with
\* two children.
TwoLeaves ==
    [n |-> 5, m |-> 3, p |-> <<0, 1, 2, 1, 4>>, q |-> <<0, 1, 1>>,
     s |-> [root |-> 1, nodes |-> {1, 2, 4}]]

\* The match of a < b, d, e in a (b (c) d e (f)), replaced by a tree of a root
\* whose only child has two children.
TwoConnectedLeaves ==
    [n |-> 6, m |-> 4, p |-> <<0, 1, 2, 1, 1, 5>>, q |-> <<0, 1, 2, 2>>,
     s |-> [root |-> 1, nodes |-> {1, 2, 4, 5}]]

\* Every host of at most MaxHost nodes with each of its subtrees and every
\* replacement tree of at most MaxNew nodes, and the named inputs.
ReplaceByInputs ==
    UNION {UNION {[n : {n}, m : {m}, p : {p}, q : ParentVectors(m), s : Subtrees(p)] :
                     p \in ParentVectors(n)} :
              n \in 1..MaxHost, m \in 1..MaxNew}
        \cup {StarAgainstChain, TwoLeaves, TwoConnectedLeaves}

\* Subtree.replace_by called on a subtree of a host with a replacement tree.
InitReplaceBy ==
    /\ \E i \in ReplaceByInputs :
         /\ value = [k \in Node |-> IF k <= i.n THEN HostValue[k]
                                    ELSE IF k <= i.n + i.m THEN NewValue[k - i.n]
                                    ELSE ""]
         /\ parent = [k \in Node |-> IF k <= i.n THEN ParentIn(i.p, 0, k)
                                     ELSE IF k <= i.n + i.m
                                          THEN ParentIn(i.q, i.n, k - i.n)
                                          ELSE None]
         /\ children = [k \in Node |-> IF k <= i.n THEN ChildrenIn(i.p, 0, k)
                                       ELSE IF k <= i.n + i.m
                                            THEN ChildrenIn(i.q, i.n, k - i.n)
                                            ELSE <<>>]
         /\ used = i.n + i.m
         /\ root = 1
         /\ old = i.s
         /\ new = i.n + 1
         /\ call0 = [value |-> value, parent |-> parent, children |-> children,
                     root |-> root, old |-> old, nodes |-> 1..i.n,
                     program |-> <<>>, at_search |-> Heap]
    /\ pc = "rb_test"
    /\ err = "none"
    /\ strategy = 1
    /\ applied = <<>>
    /\ source = <<>>
    /\ rules = <<>>
    /\ op = "replace_by"
    /\ rule = 0
    /\ rule_matched = FALSE
    /\ branches = <<>>
    /\ new_branches = <<>>
    /\ cursor = 0
    /\ matches = <<>>
    /\ match = 0
    /\ vm = BuildMachine
    /\ log = <<>>

NextReplaceBy ==
    \/ TestHolds
    \/ TestFails
    \/ RaiseAmbiguous
    \/ ApplySameShape
    \/ ApplyToOneNode
    \/ ApplyNoConnectedLeaves
    \/ ApplySameLeafCount
    \/ ApplySameConnectedCount

SpecReplaceBy == InitReplaceBy /\ [][NextReplaceBy]_vars

\* Node values of the trees that are searched, replaced in and transformed.
TreeValue == {"a", "b"}

Text(p, r) == [pattern |-> p, replacement |-> r]

\* The patterns given to Tree.search:
\*   a      a < b      a < b & a      a < b >      {a} , $1
\*   {a} < b , $1      {a < b} , $1      a < {b} , $1      {a < b > < b} < $1
\*   {a < {b}} , $2      a < {b}      b , b      a < {b , b}      a < b , {b}
SearchTexts ==
    { Text(<<Constant("a")>>, <<>>),
      Text(<<Constant("a"), ChildRel, Constant("b")>>, <<>>),
      Text(<<Constant("a"), ChildRel, Constant("b"), SiblingRel, Constant("a")>>, <<>>),
      Text(<<Constant("a"), ChildRel, Constant("b"), ParentAny>>, <<>>),
      Text(<<GroupOpen, Constant("a"), GroupClose, NextSiblingRel, Reference(1)>>, <<>>),
      Text(<<GroupOpen, Constant("a"), GroupClose, ChildRel, Constant("b"),
             NextSiblingRel, Reference(1)>>, <<>>),
      Text(<<GroupOpen, Constant("a"), ChildRel, Constant("b"), GroupClose,
             NextSiblingRel, Reference(1)>>, <<>>),
      Text(<<Constant("a"), ChildRel, GroupOpen, Constant("b"), GroupClose,
             NextSiblingRel, Reference(1)>>, <<>>),
      Text(<<GroupOpen, Constant("a"), ChildRel, Constant("b"), ParentAny, ChildRel,
             Constant("b"), GroupClose, ChildRel, Reference(1)>>, <<>>),
      Text(<<GroupOpen, Constant("a"), ChildRel, GroupOpen, Constant("b"), GroupClose,
             GroupClose, NextSiblingRel, Reference(2)>>, <<>>),
      Text(<<Constant("a"), ChildRel, GroupOpen, Constant("b"), GroupClose>>, <<>>),
      Text(<<Constant("b"), NextSiblingRel, Constant("b")>>, <<>>),
      Text(<<Constant("a"), ChildRel, GroupOpen, Constant("b"), NextSiblingRel,
             Constant("b"), GroupClose>>, <<>>),
      Text(<<Constant("a"), ChildRel, Constant("b"), NextSiblingRel, GroupOpen,
             Constant("b"), GroupClose>>, <<>>) }

\* The arguments of Tree.replace:
\*   a, x      a < b, x      b, x < y , z      {a} < {b}, $2 < $1
\*   a < b, x < y < z      a < b , b, x < y      {b}, [$1] < c >
\*   b < c, x      {a < b}, x < $1 < c      a, x < y > < z
ReplaceTexts ==
    { Text(<<Constant("a")>>, <<Constant("x")>>),
      Text(<<Constant("a"), ChildRel, Constant("b")>>, <<Constant("x")>>),
      Text(<<Constant("b")>>,
           <<Constant("x"), ChildRel, Constant("y"), NextSiblingRel, Constant("z")>>),
      Text(<<GroupOpen, Constant("a"), GroupClose, ChildRel,
             GroupOpen, Constant("b"), GroupClose>>,
           <<Reference(2), ChildRel, Reference(1)>>),
      Text(<<Constant("a"), ChildRel, Constant("b")>>,
           <<Constant("x"), ChildRel, Constant("y"), ChildRel, Constant("z")>>),
      Text(<<Constant("a"), ChildRel, Constant("b"), NextSiblingRel, Constant("b")>>,
           <<Constant("x"), ChildRel, Constant("y")>>),
      Text(<<GroupOpen, Constant("b"), GroupClose>>,
           <<GroupValue(1), ChildRel, Constant("c"), ParentAny>>),
      Text(<<Constant("b"), ChildRel, Constant("c")>>, <<Constant("x")>>),
      Text(<<GroupOpen, Constant("a"), ChildRel, Constant("b"), GroupClose>>,
           <<Constant("x"), ChildRel, Reference(1), ChildRel, Constant("c")>>),
      Text(<<Constant("a")>>,
           <<Constant("x"), ChildRel, Constant("y"), ParentAny, ChildRel,
             Constant("z")>>) }

\* The programs given to Tree.transform, one rule per line:
\*   x -> y          a < b -> x      a -> b      a -> a
\*   a -> x
Programs ==
    { <<Text(<<Constant("x")>>, <<Constant("y")>>),
        Text(<<Constant("a")>>, <<Constant("x")>>)>>,
      <<Text(<<Constant("a"), ChildRel, Constant("b")>>, <<Constant("x")>>)>>,
      <<Text(<<Constant("a")>>, <<Constant("b")>>)>>,
      <<Text(<<Constant("a")>>, <<Constant("a")>>)>> }

Calls ==
    [op : {"search", "match", "fullmatch"}, source : {<<t>> : t \in SearchTexts}]
        \cup [op : {"replace"}, source : {<<t>> : t \in ReplaceTexts}]
        \cup [op : {"transform"}, source : Programs]

\* The tree a (b b (a (b b))): the pattern {a < b > < b} < $1 captures a (b) in
\* some branches and a (b b) in others, so that their instruction lists end in
\* different rounds.
UnevenTree ==
    [n |-> 6, p |-> <<0, 1, 1, 3, 4, 4>>, v |-> <<"a", "b", "b", "a", "b", "b">>]

\* The tree a (b (c (d)) b (c (e))), with two matches of b < c.
TwoChains ==
    [n |-> 7, p |-> <<0, 1, 2, 3, 1, 5, 6>>,
     v |-> <<"a", "b", "c", "d", "b", "c", "e">>]

\* Every tree of at most MaxHost nodes with values of TreeValue, and the named
\* trees.
Trees ==
    UNION {[n : {n}, p : ParentVectors(n), v : [1..n -> TreeValue]] : n \in 1..MaxHost}
        \cup {UnevenTree, TwoChains}

\* A tree of Trees, and a first call of Tree.search,
\* Tree.replace or Tree.transform on it with texts not compiled before.
Init ==
    /\ \E t \in Trees :
         /\ value = [i \in Node |-> IF i <= t.n THEN t.v[i] ELSE ""]
         /\ parent = [i \in Node |-> IF i <= t.n THEN ParentIn(t.p, 0, i) ELSE None]
         /\ children = [i \in Node |-> IF i <= t.n THEN ChildrenIn(t.p, 0, i)
                                       ELSE <<>>]
         /\ used = t.n
    /\ root = 1
    /\ \E c \in Calls :
         /\ op = c.op
         /\ source = c.source
         /\ rules = [i \in DOMAIN c.source |-> compile_rule(c.source[i])]
    /\ pc = "idle"
    /\ err = "none"
    /\ old = EmptySubtree
    /\ new = None
    /\ strategy = 1
    /\ applied = <<>>
    /\ call0 = Called
    /\ rule = 1
    /\ rule_matched = FALSE
    /\ branches = <<>>
    /\ new_branches = <<>>
    /\ cursor = 0
    /\ matches = <<>>
    /\ match = 1
    /\ vm = BuildMachine
    /\ log = <<>>

Next ==
    \/ CallSearch
    \/ CallTransform
    \/ CallMatch
    \/ CallFullmatch
    \/ RoundBegins
    \/ ExecFind
    \/ ExecSetRelation
    \/ ExecGroupStart
    \/ ExecGroupEnd
    \/ ExecReference
    \/ KeepFinished
    \/ RoundEnds
    \/ SearchReturns
    \/ RaiseOverlapping
    \/ CheckDisjoint
    \/ PassBegins
    \/ RuleSearch
    \/ PassEnds
    \/ MatchBuild
    \/ ExecAddNode
    \/ ExecAddReference
    \/ ExecGoToParent
    \/ BuildSetRelation
    \/ BuildReturns
    \/ TestHolds
    \/ TestFails
    \/ TestRaises
    \/ RaiseAmbiguous
    \/ ApplySameShape
    \/ ApplyToOneNode
    \/ ApplyNoConnectedLeaves
    \/ ApplySameLeafCount
    \/ ApplySameConnectedCount
    \/ ReplaceByReturns
    \/ MatchesDone

Spec == Init /\ [][Next]_vars

\* ------------------------------------------- compiler.py: texts and compiling
\* The longest text given to the compiler, in tokens.
MaxText == 7

\* GRAMMAR, replacement = repl_node repl_rel_node*: the texts of at most k
\* tokens after a first node, with repl_relation = child / next_sibling and
\* node = any / constant / reference.
RECURSIVE ReplRelNodes(_)
ReplRelNodes(k) ==
    {<<>>}
        \cup (IF k >= 1 THEN {<<ParentAny>> \o t : t \in ReplRelNodes(k - 1)} ELSE {})
        \cup (IF k >= 2
              THEN {<<r, n>> \o t : r \in {ChildRel, NextSiblingRel},
                                    n \in {AnyNode, Constant("y"), Reference(1)},
                                    t \in ReplRelNodes(k - 2)}
              ELSE {})

Replacements ==
    {<<n>> \o t : n \in {Constant("x"), Reference(1)}, t \in ReplRelNodes(MaxText - 1)}

\* GRAMMAR, pattern = group rel_group*, group = node / (group_start pattern
\* group_end), rel_group = (relation group) / parent_any: the texts of at most
\* k tokens, with node = any / reference.
RECURSIVE Patterns(_), Groups(_), RelGroups(_)
Groups(k) ==
    (IF k >= 1 THEN {<<n>> : n \in {AnyNode, Reference(0), Reference(1), Reference(2)}}
     ELSE {})
        \cup (IF k >= 3
              THEN {<<GroupOpen>> \o p \o <<GroupClose>> : p \in Patterns(k - 2)}
              ELSE {})
RelGroups(k) ==
    {<<>>}
        \cup (IF k >= 1 THEN {<<ParentAny>> \o t : t \in RelGroups(k - 1)} ELSE {})
        \cup (IF k >= 2
              THEN UNION {{<<r>> \o g \o t : t \in RelGroups(k - 1 - Len(g))} :
                             r \in {ChildRel, NextSiblingRel}, g \in Groups(k - 1)}
              ELSE {})
Patterns(k) == UNION {{g \o t : t \in RelGroups(k - Len(g))} : g \in Groups(k)}

\* The pattern {.} < [False], $1 of the compiler's test.
TestPattern ==
    <<GroupOpen, AnyNode, GroupClose, ChildRel, Token("python_code", "False", 0),
      NextSiblingRel, Reference(1)>>

CompilerCalls ==
    [op : {"compile_pattern"},
     source : {<<Text(p, <<>>)>> : p \in Patterns(MaxText) \cup {TestPattern}}]
        \cup [op : {"compile_replacement"},
              source : {<<Text(<<>>, r)>> : r \in Replacements}]

\* A text the parser accepts is given to Compiler.compile_pattern or
\* Compiler.compile_replacement for the first time; a replacement is then
\* built for a match of {a < b} in the tree a (b).
InitCompile ==
    /\ value = [i \in Node |-> IF i <= 2 THEN HostValue[i] ELSE ""]
    /\ parent = [i \in Node |-> IF i = 2 THEN 1 ELSE None]
    /\ children = [i \in Node |-> IF i = 1 THEN <<2>> ELSE <<>>]
    /\ used = 2
    /\ root = 1
    /\ \E c \in CompilerCalls :
         /\ op = c.op
         /\ source = c.source
    /\ rules = <<[search |-> <<>>, replace |-> <<>>]>>
    /\ pc = "compile"
    /\ err = "none"
    /\ old = EmptySubtree
    /\ new = None
    /\ strategy = 1
    /\ applied = <<>>
    /\ call0 = Called
    /\ rule = 1
    /\ rule_matched = FALSE
    /\ branches = <<>>
    /\ new_branches = <<>>
    /\ cursor = 0
    /\ matches = <<<<[root |-> 1, nodes |-> {1, 2}], [root |-> 1, nodes |-> {1, 2}]>>>>
    /\ match = 1
    /\ vm = BuildMachine
    /\ log = <<>>

\* The generator's visit ended: its exception, or the list it returns.
Compiled(g, list) ==
    /\ pc = "compile"
    /\ IF g.error # "none"
       THEN /\ err' = g.error
            /\ pc' = "raised"
            /\ UNCHANGED rules
       ELSE /\ rules' = [rules EXCEPT ![1] = list]
            /\ pc' = "compiled"
            /\ UNCHANGED err
    /\ UNCHANGED <<heapvars, rbvars, call0, source, searchvars, drivervars, vm, log>>

\* Compiler.compile_pattern(pattern).
CompilePattern ==
    /\ op = "compile_pattern"
    /\ LET g == visit_search(NewGenerator, source[1].pattern, 1)
       IN  Compiled(g, [search |-> g.instructions, replace |-> <<>>])

\* Compiler.compile_replacement(replacement).
CompileReplacement ==
    /\ op = "compile_replacement"
    /\ LET g == visit_build(NewGenerator, source[1].replacement, 1)
       IN  Compiled(g, [search |-> <<>>, replace |-> g.instructions])

\* BuildMachine(match, instructions, variables).build() begins.
BuildCompiled ==
    /\ pc = "compiled"
    /\ op = "compile_replacement"
    /\ vm' = BuildMachine
    /\ pc' = "build"
    /\ UNCHANGED <<heapvars, err, rbvars, call0, compilervars, searchvars,
                   drivervars, log>>

NextCompile ==
    \/ CompilePattern
    \/ CompileReplacement
    \/ BuildCompiled
    \/ ExecAddNode
    \/ ExecAddReference
    \/ ExecGoToParent
    \/ BuildSetRelation
    \/ BuildReturns

SpecCompile == InitCompile /\ [][NextCompile]_vars

\* ------------------------------------- trees.py: Subtree, called directly
\* Subtree.remove_node: the exception it raises, "none" when it returns
\* (set.remove raises KeyError for a node that is not in the set).
remove_node_raises(h, s, n) ==
    IF node_children(h.children, s.nodes, n) # <<>> THEN "SubtreeError"
    ELSE IF n \notin s.nodes THEN "KeyError"
    ELSE "none"

\* The tree 1 (2 (3 (4 (5)) 6)) of the test of add_node.
TestAddNodeTree == <<0, 1, 2, 3, 4, 2>>

\* The tree root (connected (leaf1) leaf2) of the test of leaves.
TestLeavesTree == <<0, 1, 2, 1>>

\* The host trees of the Subtree calls.
SubtreeHosts ==
    UNION {ParentVectors(n) : n \in 1..MaxHost} \cup {TestAddNodeTree, TestLeavesTree}

\* Subtree([]) over a host tree.
InitSubtree ==
    /\ \E p \in SubtreeHosts :
         /\ value = [k \in Node |-> IF k <= Len(p) THEN HostValue[k] ELSE ""]
         /\ parent = [k \in Node |-> IF k <= Len(p) THEN ParentIn(p, 0, k) ELSE None]
         /\ children = [k \in Node |-> IF k <= Len(p) THEN ChildrenIn(p, 0, k) ELSE <<>>]
         /\ used = Len(p)
    /\ root = 1
    /\ old = EmptySubtree
    /\ pc = "subtree"
    /\ err = "none"
    /\ new = None
    /\ strategy = 1
    /\ applied = <<>>
    /\ source = <<>>
    /\ rules = <<>>
    /\ op = "Subtree"
    /\ rule = 0
    /\ rule_matched = FALSE
    /\ branches = <<>>
    /\ new_branches = <<>>
    /\ cursor = 0
    /\ matches = <<>>
    /\ match = 0
    /\ vm = BuildMachine
    /\ log = <<>>
    /\ call0 = Called

\* One call on the subtree: the caller keeps the subtree it called it on, the
\* node it passed, and sees the exception (an earlier one is over by then).
SubtreeCall(name, n, error, after) ==
    /\ pc = "subtree"
    /\ op' = name
    /\ log' = <<n>>
    /\ call0' = [call0 EXCEPT !.old = old]
    /\ err' = error
    /\ old' = IF error = "none" THEN after ELSE old
    /\ UNCHANGED <<heapvars, pc, new, strategy, applied, compilervars, searchvars,
                   rule, rule_matched, matches, match, vm>>

\* Subtree.add_node(node) for a node of the host.
SubtreeAddNode ==
    \E n \in 1..used :
        SubtreeCall("add_node", n,
                    IF add_node_raises(Heap, old, n) THEN "SubtreeError" ELSE "none",
                    add_node(Heap, old, n))

\* Subtree.remove_node(node) for a node of the host.
SubtreeRemoveNode ==
    \E n \in 1..used :
        SubtreeCall("remove_node", n, remove_node_raises(Heap, old, n),
                    remove_node(old, n))

NextSubtree ==
    \/ SubtreeAddNode
    \/ SubtreeRemoveNode

SpecSubtree == InitSubtree /\ [][NextSubtree]_vars

\* ---------------------------------------- search.py: the loop of search()
\* Tree.search is called on a tree of Trees with a pattern of SearchTexts.
InitSearchRuns == Init /\ op = "search"

\* A step of SearchMachine.search.
SearchStep ==
    \/ RoundBegins
    \/ ExecFind
    \/ ExecSetRelation
    \/ ExecGroupStart
    \/ ExecGroupEnd
    \/ ExecReference
    \/ KeepFinished
    \/ RoundEnds
    \/ SearchReturns

NextSearchRuns ==
    \/ CallSearch
    \/ SearchStep

\* The loop of search() is sequential code that runs on once it was entered:
\* a step that can be taken is taken.
SpecSearchRuns == InitSearchRuns /\ [][NextSearchRuns]_vars /\ WF_vars(SearchStep)

\* ---------------------------------------------------------------- claims
ClaimedOrder ==
    <<"SameShape", "ToOneNode", "NoConnectedLeaves", "SameLeafCount",
      "SameConnectedCount">>

\* The strategies, by position in the claimed order, whose test holds now.
Holding ==
    {k \in DOMAIN ClaimedOrder :
        strategy_test(ClaimedOrder[k], Heap, used, old, new).holds}

\* The nodes reachable from the host tree's root.
HostNodes == Range(tree_preorder(Heap, root))

\* The branching shape of a tree or of a subtree restricted to its members: the
\* node/down/right/up markers of its pre-order traversal.
ShapeOf(ch, nodes, r) ==
    LET ev == generate(ch, nodes, TRUE, r) IN [i \in 1..Len(ev) |-> ev[i].kind]

\* The nodes a branch found, one per Find it executed, in order.
Trail(b) == [i \in DOMAIN b.trail |-> b.trail[i].node]

\* Whether the node sequence seq satisfies each Find of the instruction list in
\* turn, starting from branch b: "complete" if it does and the list is
\* exhausted, "partial" if the list has a further Find, "invalid" otherwise.
RECURSIVE follows(_, _, _, _)
follows(h, b, instrs, seq) ==
    IF instrs = <<>> THEN (IF seq = <<>> THEN "complete" ELSE "invalid")
    ELSE LET i == Head(instrs)
             rest == Tail(instrs)
         IN  CASE i.op = "Find" ->
                      IF seq = <<>> THEN "partial"
                      ELSE IF /\ \E k \in DOMAIN relation_search(h, b.relation, b.node) :
                                     relation_search(h, b.relation, b.node)[k] = Head(seq)
                              /\ evaluate_find(h, i, Head(seq))
                              /\ find_error(h, b, Head(seq)) = "none"
                           THEN follows(h, found_branch(h, b, rest, i, Head(seq)),
                                        rest, Tail(seq))
                           ELSE "invalid"
               [] i.op = "SetRelation" ->
                      follows(h, [b EXCEPT !.relation = i.relation], rest, seq)
               [] i.op = "GroupStart" ->
                      follows(h, [b EXCEPT !.groups = @ \cup {i.number},
                                           !.match = Append(@, EmptySubtree)],
                              rest, seq)
               [] i.op = "GroupEnd" ->
                      IF i.number \in b.groups
                      THEN follows(h, [b EXCEPT !.groups = @ \ {i.number}], rest, seq)
                      ELSE "invalid"
               [] i.op = "SearchReference" ->
                      IF i.number + 1 <= Len(b.match) /\ b.match[i.number + 1].root # None
                      THEN follows(h, b,
                                   reference_instructions(h, used, b.match[i.number + 1],
                                                          i.number) \o rest,
                                   seq)
                      ELSE "invalid"
               [] OTHER -> "invalid"

\* The node sequences of at most k more nodes that extend one of `frontier` and
\* satisfy the whole list.
RECURSIVE satisfying(_, _, _, _)
satisfying(h, instrs, frontier, k) ==
    LET b == SearchBranch(root)
        done == {s \in frontier : follows(h, b, instrs, s) = "complete"}
        open == {s \in frontier : follows(h, b, instrs, s) = "partial"}
        longer == {t \in {Append(s, n) : s \in open, n \in 1..used} :
                      follows(h, b, instrs, t) # "invalid"}
    IN  IF k = 0 \/ longer = {} THEN done
        ELSE done \cup satisfying(h, instrs, longer, k - 1)

\* The node sequences that satisfy each Find of the pattern in the tree.
Satisfying(pattern) == satisfying(Heap, compile_pattern(pattern), {<<>>}, MaxTrail)

\* Tree.search(pattern) has just returned to its caller.
SearchReturned == op = "search" /\ pc = "idle" /\ log # <<>>

\* C1: Tree.search returns exactly one match for every sequence of nodes that
\* satisfies each Find of the pattern in turn (each node a candidate of the
\* active relation from the previously found node), whose whole-match subtree
\* holds the nodes of that sequence, and it returns no other match.
C1_SearchReturnsEverySatisfyingSequence ==
    SearchReturned =>
        /\ {Trail(branches[i]) : i \in DOMAIN branches} = Satisfying(source[1].pattern)
        /\ Len(matches) = Cardinality(Satisfying(source[1].pattern))
        /\ \A i \in DOMAIN matches : matches[i][1].nodes = Range(Trail(branches[i]))

\* The nodes a branch found through the expansion of the back-reference $n.
Referenced(b, n) ==
    LET found == SelectSeq(b.trail, LAMBDA f : f.origin = n)
    IN  [i \in DOMAIN found |-> found[i].node]

ValuesOf(nodes) == [i \in DOMAIN nodes |-> value[nodes[i]]]

\* The search machine is running, or Tree.search has just returned.
Searching == pc \in {"search_while", "search_for"} \/ SearchReturned

\* C2: a back-reference matches by structure and value: in a branch that has
\* executed all its instructions, the nodes found through the expansion of $n
\* form a region with the shape and the pre-order values of group n's subtree.
C2_ReferenceMatchesByShapeAndValue ==
    Searching =>
        \A i \in DOMAIN branches : \A n \in 1..(Len(branches[i].match) - 1) :
            LET b == branches[i]
                region == Referenced(b, n)
                group == b.match[n + 1]
            IN  (instructions_of(b) = <<>> /\ region # <<>>) =>
                    /\ ValuesOf(region) = ValuesOf(subtree_preorder(Heap, group))
                    /\ ShapeOf(children, Range(region), region[1])
                           = ShapeOf(children, group.nodes, group.root)

\* C2 witness: a returned match whose group 1 has two nodes and whose
\* back-reference $1 was matched on two other nodes.
C2_Witness ==
    /\ SearchReturned
    /\ \E i \in DOMAIN branches :
           /\ Len(branches[i].match) = 2
           /\ Cardinality(branches[i].match[2].nodes) = 2
           /\ Len(Referenced(branches[i], 1)) = 2
           /\ Range(Referenced(branches[i], 1)) \cap branches[i].match[2].nodes = {}

\* The host tree below its root: values and child lists, node by node.
TreeOf(h, r) ==
    [n \in Range(tree_preorder(h, r)) |-> <<h.value[n], h.children[n]>>]

\* C5: when transform returns, no rule's pattern has a match in the tree, and a
\* second transform with the same program performs no replacement and leaves
\* the tree as it is.
C5_TransformEndsAtFixpoint ==
    /\ (op = "transform" /\ pc = "idle" /\ log # <<>>) =>
           \A r \in DOMAIN source : Satisfying(source[r].pattern) = {}
    /\ (op = "transform" /\ log # <<>>) =>
           /\ applied = <<>>
           /\ TreeOf(Heap, root) = TreeOf(call0, call0.root)

\* The program  x -> y / a -> x  of the rule-order example.
ExampleProgram ==
    <<Text(<<Constant("x")>>, <<Constant("y")>>),
      Text(<<Constant("a")>>, <<Constant("x")>>)>>

\* The first call of the run has ended: it returned or it raised.
FirstCallEnded == (pc = "raised" /\ log = <<>>) \/ (pc = "idle" /\ Len(log) = 1)

\* The tree a (b) was transformed by ExampleProgram and the call has ended.
ExampleEnded ==
    /\ op = "transform"
    /\ source = ExampleProgram
    /\ call0.nodes = {1, 2}
    /\ call0.value[1] = "a"
    /\ call0.value[2] = "b"
    /\ FirstCallEnded

\* C6: within a pass the for loop goes to the next rule only after a search
\* for the current rule returned no match, and the passes go on until no rule
\* matches: transforming the tree a (b) with the program  x -> y / a -> x  ends
\* with the tree y (b).
C6_RuleOrderExample ==
    /\ [][(op = "transform" /\ rule' = rule + 1) => matches = <<>>]_vars
    /\ [](ExampleEnded =>
             /\ err = "none"
             /\ value[root] = "y"
             /\ Len(children[root]) = 1
             /\ value[children[root][1]] = "b"
             /\ children[children[root][1]] = <<>>)

\* C7: Tree.replace and Tree.transform check the matches of a search for
\* disjointness before they replace any of them: with two matches that share a
\* node OverlappingMatches is raised while the tree is as the search found it
\* (for Tree.replace: as it was before the call), and no match is built or
\* replaced unless the matches are disjoint.
C7_DisjointnessCheckedBeforeReplacing ==
    /\ err = "OverlappingMatches" =>
           /\ Heap = call0.at_search
           /\ op = "replace" =>
                  /\ applied = <<>>
                  /\ TreeOf(Heap, root) = TreeOf(call0, call0.root)
    /\ (op \in {"replace", "transform"}
            /\ pc \in {"for_match", "build", "rb_test", "rb_apply", "rb_done"}) =>
           ~overlapping(matches)

\* C7 witness: Tree.replace found two matches that share a node and raised.
C7_Witness ==
    /\ op = "replace"
    /\ err = "OverlappingMatches"
    /\ Len(matches) = 2
    /\ matches[1][1].nodes \cap matches[2][1].nodes # {}

\* C9: executing a compiled program does not change it: the instruction lists
\* of the rule texts stay what the compiler produced, and two successive
\* searches with the same pattern text on the unchanged tree return equal lists
\* of matches.
C9_ExecutionLeavesProgramUnchanged ==
    /\ rules = [i \in DOMAIN source |-> compile_rule(source[i])]
    /\ (op = "search" /\ Len(log) >= 2) => log[1].result = log[2].result

\* C3: replace_by applies exactly one strategy per call, the first in the order
\* SameShape, ToOneNode, NoConnectedLeaves, SameLeafCount, SameConnectedCount
\* whose test holds; a later one is never applied when an earlier test holds.
C3_FirstHoldingStrategyOnly ==
    /\ Len(applied) <= 1
    /\ pc = "rb_apply" =>
           /\ Holding # {}
           /\ \A k \in Holding :
                  (\A j \in Holding : k <= j) => all_strategies[strategy] = ClaimedOrder[k]
    /\ pc = "rb_done" => applied = <<all_strategies[strategy]>>

\* C3 witness: subtree and replacement are single nodes, ToOneNode's test held
\* as well, and SameShape was the one applied.
C3_Witness ==
    /\ pc = "rb_done"
    /\ applied = <<"SameShape">>
    /\ Cardinality(call0.old.nodes) = 1
    /\ ToOneNode_test(Heap, old, new)

\* C4: after replace_by, every host node that was not a member of the matched
\* subtree is still reachable from the host tree's root.
C4_NoExternalNodeLost ==
    pc = "rb_done" => (call0.nodes \ call0.old.nodes) \subseteq HostNodes

\* C4 witness: ToOneNode collapsed a subtree of several members, one of which
\* (not the root) had an external child.
C4_Witness ==
    /\ pc = "rb_done"
    /\ applied = <<"ToOneNode">>
    /\ \E n \in call0.nodes \ call0.old.nodes :
           /\ call0.parent[n] \in call0.old.nodes \ {call0.old.root}
           /\ n \in HostNodes

\* C8: when no test holds, replace_by raises ReplaceError and the host tree and
\* the subtree are as before the call; the tests themselves change nothing.
C8_AmbiguousCommitsNothing ==
    (err = "ReplaceError" \/ pc \in {"rb_test", "rb_apply"}) =>
        /\ value = call0.value
        /\ parent = call0.parent
        /\ children = call0.children
        /\ root = call0.root
        /\ old = call0.old
        /\ applied = <<>>

\* C8 witness: all five tests failed on a subtree with external children.
C8_Witness ==
    /\ err = "ReplaceError"
    /\ strategy = Len(all_strategies)
    /\ connected_leaves(Heap, old) # <<>>

\* C10: SameShape.test holds exactly when the subtree (restricted to its members)
\* and the replacement have the same sequence of node/down/right/up markers.
C10_SameShapeTestIffSameShape ==
    /\ (pc = "rb_apply" /\ all_strategies[strategy] = "SameShape") =>
           ShapeOf(children, old.nodes, old.root) = ShapeOf(children, Node, new)
    /\ (pc = "rb_test" /\ strategy > 1) =>
           ShapeOf(children, old.nodes, old.root) # ShapeOf(children, Node, new)

\* The heap the caller saw at the call.
Heap0 == [value |-> call0.value, parent |-> call0.parent, children |-> call0.children]

\* replace_by returned after applying the strategy of that name.
Replaced(name) == pc = "rb_done" /\ applied = <<name>>

\* C11: SameShape.apply changes values only: the member at each pre-order
\* position of the subtree has the value of the replacement's node at the same
\* position; parents and child lists (so the markers of the region) are as
\* before, and every non-member node keeps its value.
C11_SameShapeApplyChangesValuesOnly ==
    (op = "replace_by" /\ Replaced("SameShape")) =>
        LET olds == subtree_preorder(Heap0, call0.old)
            news == tree_preorder(Heap, new)
        IN  /\ \A i \in DOMAIN olds : i <= Len(news) /\ value[olds[i]] = value[news[i]]
            /\ parent = call0.parent
            /\ children = call0.children
            /\ old = call0.old
            /\ ShapeOf(children, old.nodes, old.root)
                   = ShapeOf(call0.children, call0.old.nodes, call0.old.root)
            /\ \A n \in Node \ call0.old.nodes : value[n] = call0.value[n]

\* The children, outside the subtree s, of the members of s, in the document
\* order of the tree of heap h below r.
ExternalChildren(h, r, s) ==
    SelectSeq(tree_preorder(h, r),
              LAMBDA n : n \notin s.nodes /\ h.parent[n] \in s.nodes)

\* What ToOneNode.apply leaves of the subtree s of the tree (h, r): only the
\* root of s is still a member and still in the tree, it has the replacement
\* root's value, and its children are the former external children in order.
Collapsed(h, r, s) ==
    /\ old = [root |-> s.root, nodes |-> {s.root}]
    /\ (s.nodes \ {s.root}) \cap HostNodes = {}
    /\ s.root \in HostNodes
    /\ value[s.root] = value[new]
    /\ children[s.root] = ExternalChildren(h, r, s)
    /\ \A n \in Range(ExternalChildren(h, r, s)) : parent[n] = s.root

\* Tree.replace was called with these texts on the tree t of Trees, and the
\* call has ended.
ReplaceEnded(t, text) ==
    /\ op = "replace"
    /\ source = <<text>>
    /\ call0.nodes = 1..t.n
    /\ \A i \in 1..t.n : call0.value[i] = t.v[i] /\ call0.parent[i] = ParentIn(t.p, 0, i)
    /\ FirstCallEnded

\* The values of the tree of the heap below r in pre-order, each with its depth.
Outline(h, r) ==
    LET RECURSIVE depth(_)
        depth(n) == IF n = r THEN 0 ELSE 1 + depth(h.parent[n])
        pre == tree_preorder(h, r)
    IN  [i \in DOMAIN pre |-> <<depth(pre[i]), h.value[pre[i]]>>]

\* C12: after ToOneNode.apply only the root of the replaced subtree remains of
\* its members, with the replacement root's value and with every external
\* child of a member as its child, in document order; replacing b < c by x in
\* a (b (c (d)) b (c (e))) gives a (x (d) x (e)).
C12_ToOneNodeCollapsesToRoot ==
    /\ (op = "replace" /\ pc = "rb_done" /\ match = 1 /\ applied = <<"ToOneNode">>) =>
           Collapsed(call0, call0.root, matches[1][1])
    /\ ReplaceEnded(TwoChains, Text(<<Constant("b"), ChildRel, Constant("c")>>,
                                    <<Constant("x")>>)) =>
           /\ err = "none"
           /\ Outline(Heap, root)
                  = <<<<0, "a">>, <<1, "x">>, <<2, "d">>, <<1, "x">>, <<2, "e">>>>

\* replace_by was called with input i of ReplaceByInputs and has returned.
ReplacedIn(i) ==
    /\ op = "replace_by"
    /\ pc = "rb_done"
    /\ call0.nodes = 1..i.n
    /\ call0.old = i.s
    /\ \A k \in 1..i.n : call0.parent[k] = ParentIn(i.p, 0, k)
    /\ Range(tree_preorder(Heap0, new)) = (i.n + 1)..(i.n + i.m)
    /\ \A k \in 1..i.m : call0.parent[i.n + k] = ParentIn(i.q, i.n, k)

\* The children of the old leaves are the children of the paired new leaves,
\* pair by pair in pre-order, each list in its order.
LeavesPaired(name) ==
    LET olds == strategy_leaves(name, Heap0, call0.old)
        news == tree_leaves(Heap0, new)
    IN  /\ Len(olds) = Len(news)
        /\ \A i \in DOMAIN olds :
               /\ children[news[i]] = call0.children[olds[i]]
               /\ \A c \in Range(call0.children[olds[i]]) : parent[c] = news[i]

\* The old root has the value and the children of the new root, and below them
\* the replacement tree is as it was, down to its leaves.
RootReplaced ==
    /\ value[call0.old.root] = call0.value[new]
    /\ children[call0.old.root] = call0.children[new]
    /\ \A n \in Range(tree_preorder(Heap0, new)) \ {new} :
           /\ value[n] = call0.value[n]
           /\ parent[n] = IF call0.parent[n] = new THEN call0.old.root
                          ELSE call0.parent[n]
           /\ call0.children[n] # <<>> => children[n] = call0.children[n]

\* C13: SameLeafCount and SameConnectedCount pair the i-th (connected) leaf of
\* the subtree with the i-th leaf of the replacement, in pre-order; the
\* children of the old leaf become the children of the new leaf in their
\* order, and the old root is replaced by the new root.  Replacing a < b, d in
\* a (b (c) d (e)) by a root with two children gives root (child (c) child (e)),
\* replacing a < b, d, e in a (b (c) d e (f)) by a root over a node with two
\* children gives root (node (child (c) child (f))).
C13_LeavesPairedInPreorder ==
    /\ \A name \in {"SameLeafCount", "SameConnectedCount"} :
           (op = "replace_by" /\ Replaced(name)) => LeavesPaired(name) /\ RootReplaced
    /\ ReplacedIn(TwoLeaves) =>
           Outline(Heap, root)
               = <<<<0, "p">>, <<1, "q">>, <<2, "c">>, <<1, "r">>, <<2, "e">>>>
    /\ ReplacedIn(TwoConnectedLeaves) =>
           Outline(Heap, root)
               = <<<<0, "p">>, <<1, "q">>, <<2, "r">>, <<3, "c">>, <<2, "s">>, <<3, "f">>>>

\* C13 witness: SameConnectedCount was applied to the subtree of a (b (c) d e (f)),
\* whose second leaf has no children, and replace_by returned.
C13_Witness ==
    ReplacedIn(TwoConnectedLeaves) /\ applied = <<"SameConnectedCount">>

\* The replacement of b in a (b c) by a root with two children.
FirstOfTwo ==
    [n |-> 3, m |-> 3, p |-> <<0, 1, 1>>, q |-> <<0, 1, 1>>,
     s |-> [root |-> 2, nodes |-> {2}]]

\* C14: NoConnectedLeaves, SameLeafCount and SameConnectedCount put the
\* replacement in the old root's place: the old root's parent and its list of
\* children are as before (same index, siblings in order), the node at that
\* place has the new root's value and children, and the tree's root is the
\* same node as before, also when it is the replaced one.  Replacing b in
\* a (b c) by a root with two children gives a (root (child child) c).
C14_ReplacementTakesRootsPlace ==
    /\ \A name \in {"NoConnectedLeaves", "SameLeafCount", "SameConnectedCount"} :
           (op = "replace_by" /\ Replaced(name)) =>
               LET r == call0.old.root
                   p == call0.parent[r]
               IN  /\ root = call0.root
                   /\ parent[r] = p
                   /\ p # None => children[p] = call0.children[p]
                   /\ \A n \in call0.nodes \ call0.old.nodes : value[n] = call0.value[n]
                   /\ value[r] = call0.value[new]
                   /\ children[r] = call0.children[new]
                   /\ \A c \in Range(children[r]) : parent[c] = r
    /\ ReplacedIn(FirstOfTwo) =>
           Outline(Heap, root)
               = <<<<0, "a">>, <<1, "p">>, <<2, "q">>, <<2, "r">>, <<1, "c">>>>

\* C14 witness: b in a (b c) was replaced by NoConnectedLeaves.
C14_Witness ==
    ReplacedIn(FirstOfTwo) /\ applied = <<"NoConnectedLeaves">>


\* The nodes the active relation of branch b enumerates from its context node,
\* in that order, that satisfy the Find.
Candidates(h, b, i) ==
    SelectSeq(relation_search(h, b.relation, b.node), LAMBDA n : evaluate_find(h, i, n))

\* The branches a search from branch b with the instruction list ends with, in
\* the order of a depth-first enumeration: for each Find the candidates of the
\* active relation in their order, and for each of them all that follows.
RECURSIVE Ordered(_, _, _)
RECURSIVE OrderedEach(_, _, _, _, _, _)
Ordered(h, b, instrs) ==
    IF instrs = <<>> THEN <<b>>
    ELSE LET i == Head(instrs)
             rest == Tail(instrs)
         IN  CASE i.op = "Find" ->
                      OrderedEach(h, b, i, rest, Candidates(h, b, i), 1)
               [] i.op = "SetRelation" ->
                      Ordered(h, [b EXCEPT !.relation = i.relation], rest)
               [] i.op = "GroupStart" ->
                      Ordered(h, [b EXCEPT !.groups = @ \cup {i.number},
                                           !.match = Append(@, EmptySubtree)], rest)
               [] i.op = "GroupEnd" ->
                      Ordered(h, [b EXCEPT !.groups = @ \ {i.number}], rest)
               [] i.op = "SearchReference" ->
                      IF i.number + 1 <= Len(b.match) /\ b.match[i.number + 1].root # None
                      THEN Ordered(h, b,
                                   reference_instructions(h, used, b.match[i.number + 1],
                                                          i.number) \o rest)
                      ELSE <<>>
               [] OTHER -> <<>>

OrderedEach(h, b, i, rest, found, k) ==
    IF k > Len(found) THEN <<>>
    ELSE Ordered(h, found_branch(h, b, rest, i, found[k]), rest)
             \o OrderedEach(h, b, i, rest, found, k + 1)

\* The whole-match node sets of a list of matches, in order.
WholeMatches(ms) == [i \in DOMAIN ms |-> ms[i][1].nodes]

\* What Tree.search(pattern) returns on the tree as it is: the matches in order.
SearchResult(pattern) ==
    LET bs == Ordered(Heap, SearchBranch(root), compile_pattern(pattern))
    IN  [i \in DOMAIN bs |-> bs[i].match]

\* The matches of that result whose first matched node is the root.
Anchored(pattern) ==
    LET bs == Ordered(Heap, SearchBranch(root), compile_pattern(pattern))
        at_root == SelectSeq(bs, LAMBDA b : b.trail # <<>> /\ b.trail[1].node = root)
    IN  [i \in DOMAIN at_root |-> at_root[i].match]

\* C15: Tree.match returns exactly the matches of Tree.search whose first
\* matched node is the root, in the same order, and the empty list when the
\* root does not satisfy the first specifier.
C15_MatchIsSearchAnchoredAtRoot ==
    (op = "match" /\ FirstCallEnded) =>
        /\ err = "none"
        /\ Len(log) = 1
        /\ log[1].result = Anchored(source[1].pattern)

\* C16: Tree.fullmatch returns the anchored matches if the union of their
\* whole-match node sets holds every node of the tree, and the empty list
\* otherwise.
C16_FullmatchCoversEveryNode ==
    (op = "fullmatch" /\ FirstCallEnded) =>
        /\ err = "none"
        /\ Len(log) = 1
        /\ log[1].result =
               IF UNION Range(WholeMatches(Anchored(source[1].pattern))) = HostNodes
               THEN Anchored(source[1].pattern)
               ELSE <<>>

\* The group instructions a pattern stands for: the k-th { starts group k, and
\* each } ends the innermost group still open.
RECURSIVE Brackets(_, _, _, _)
Brackets(tokens, i, started, open) ==
    IF i > Len(tokens) THEN <<>>
    ELSE IF tokens[i].t = "group_start"
         THEN <<<<"GroupStart", started + 1>>>>
                  \o Brackets(tokens, i + 1, started + 1, <<started + 1>> \o open)
         ELSE IF tokens[i].t = "group_end" /\ open # <<>>
              THEN <<<<"GroupEnd", Head(open)>>>>
                       \o Brackets(tokens, i + 1, started, Tail(open))
              ELSE Brackets(tokens, i + 1, started, open)

\* The group instructions of the compiled pattern.
CompiledGroups(pattern) ==
    LET g == SelectSeq(compile_pattern(pattern),
                       LAMBDA i : i.op \in {"GroupStart", "GroupEnd"})
    IN  [j \in DOMAIN g |-> <<g[j].op, g[j].number>>]

NumGroups(pattern) ==
    Len(SelectSeq(pattern, LAMBDA t : t.t = "group_start"))

\* The nodes of the sequence seq, found one per Find of the instruction list
\* from branch b on, that were found between GroupStart(k) and GroupEnd(k);
\* `inside` tells whether GroupStart(k) was executed and GroupEnd(k) not yet.
RECURSIVE Captured(_, _, _, _, _, _)
Captured(h, b, instrs, seq, k, inside) ==
    IF instrs = <<>> \/ seq = <<>> THEN {}
    ELSE LET i == Head(instrs)
             rest == Tail(instrs)
         IN  CASE i.op = "Find" ->
                      (IF inside THEN {Head(seq)} ELSE {})
                          \cup Captured(h, found_branch(h, b, rest, i, Head(seq)),
                                        rest, Tail(seq), k, inside)
               [] i.op = "SetRelation" ->
                      Captured(h, [b EXCEPT !.relation = i.relation], rest, seq, k, inside)
               [] i.op = "GroupStart" ->
                      Captured(h, [b EXCEPT !.groups = @ \cup {i.number},
                                            !.match = Append(@, EmptySubtree)],
                               rest, seq, k, inside \/ i.number = k)
               [] i.op = "GroupEnd" ->
                      Captured(h, [b EXCEPT !.groups = @ \ {i.number}], rest, seq, k,
                               inside /\ i.number # k)
               [] i.op = "SearchReference" ->
                      IF i.number + 1 <= Len(b.match) /\ b.match[i.number + 1].root # None
                      THEN Captured(h, b,
                                    reference_instructions(h, used, b.match[i.number + 1],
                                                           i.number) \o rest,
                                    seq, k, inside)
                      ELSE {}
               [] OTHER -> {}

\* What the claim says of the matches of a search that has just returned, the
\* Finds being those of the list the machine was given.
GroupsCaptured ==
    LET pattern == source[1].pattern
    IN  /\ CompiledGroups(pattern) = Brackets(pattern, 1, 0, <<>>)
        /\ \A i \in DOMAIN matches :
               /\ Len(matches[i]) = 1 + NumGroups(pattern)
               /\ matches[i][1].nodes = Range(Trail(branches[i]))
               /\ \A k \in 1..NumGroups(pattern) :
                      /\ matches[i][k + 1].nodes
                             = Captured(Heap, SearchBranch(root), call0.program[1].search,
                                        Trail(branches[i]), k, FALSE)
                      /\ matches[i][k + 1].nodes \subseteq matches[i][1].nodes

\* C17: in every match a search returns, the subtree at index k >= 1 is the
\* capture of the k-th { of the pattern (each } closing the innermost open
\* group) and holds exactly the nodes found between GroupStart(k) and
\* GroupEnd(k); index 0 holds every node found, so every group is a subset of
\* it; and the match has one subtree more than the pattern has {.
C17_GroupsCaptureTheirFinds ==
    SearchReturned => GroupsCaptured

\* C17 witness: a search with the nested groups of {a < {b}} , $2 returned a
\* match whose inner capture is smaller than the outer one, which is smaller
\* than the whole match.
C17_Witness ==
    /\ SearchReturned
    /\ NumGroups(source[1].pattern) = 2
    /\ \E i \in DOMAIN matches :
           /\ Len(matches[i]) = 3
           /\ matches[i][3].nodes # matches[i][2].nodes
           /\ matches[i][2].nodes # matches[i][1].nodes
           /\ matches[i][3].nodes # {}

\* The node sequences found by a list of branches, in order.
Trails(bs) == [i \in DOMAIN bs |-> Trail(bs[i])]

\* One pass of the for loop over the branches: what the pass puts on the new
\* list comes after what is there, and for a Find it is one branch per
\* satisfying candidate, in the order of the enumeration.
ForkInOrder ==
    (pc = "search_for" /\ cursor' = cursor + 1) =>
        LET added == SubSeq(new_branches', Len(new_branches) + 1, Len(new_branches'))
        IN  /\ SubSeq(new_branches', 1, Len(new_branches)) = new_branches
            /\ IF instructions_of(branch) # <<>> /\ instruction.op = "Find"
               THEN LET found == Candidates(Heap, branch, instruction)
                    IN  Trails(added)
                            = [k \in DOMAIN found |-> Append(Trail(branch), found[k])]
               ELSE Trails(added) = <<Trail(branch)>>

\* The new list becomes the branch list at the end of the round.
RoundKeepsOrder ==
    (pc = "search_for" /\ pc' = "search_while") => branches' = new_branches

\* C18: the list a search returns preserves fork order: the branches forked by
\* a Find take their parent's position in the list, in the order in which the
\* active relation enumerated the satisfying candidates, so the matches are in
\* the lexicographic order of the candidates chosen at the successive Finds,
\* and the first matched nodes of an unanchored search are in pre-order.
C18_ResultPreservesForkOrder ==
    /\ [][ForkInOrder /\ RoundKeepsOrder]_vars
    /\ [](SearchReturned =>
             /\ Trails(branches)
                    = Trails(Ordered(Heap, SearchBranch(root), call0.program[1].search))
             /\ Len(log) = 1 =>
                    \A i, j \in DOMAIN branches :
                        (i < j /\ Trail(branches[i]) # <<>>) =>
                            PosIn(tree_preorder(Heap, root), Trail(branches[i])[1])
                                <= PosIn(tree_preorder(Heap, root), Trail(branches[j])[1]))

\* C18 witness: a search returned three matches, the first two with the same
\* first node and different second nodes, the third with another first node.
C18_Witness ==
    /\ SearchReturned
    /\ \E i \in DOMAIN branches :
           /\ i + 2 <= Len(branches)
           /\ Len(Trail(branches[i])) >= 2
           /\ Len(Trail(branches[i + 2])) >= 2
           /\ Trail(branches[i])[1] = Trail(branches[i + 1])[1]
           /\ Trail(branches[i])[2] # Trail(branches[i + 1])[2]
           /\ Trail(branches[i])[1] # Trail(branches[i + 2])[1]

\* The step leaves the host tree and the matches as they are.
HostUntouched ==
    /\ root' = root
    /\ matches' = matches
    /\ \A n \in HostNodes :
           value'[n] = value[n] /\ parent'[n] = parent[n] /\ children'[n] = children[n]

\* The node the step made the cursor is attached to the former cursor through
\* the machine's relation.
Attached ==
    CASE vm.relation = "Child" ->
             /\ parent'[vm'.node] = vm.node
             /\ \E i \in DOMAIN children'[vm.node] : children'[vm.node][i] = vm'.node
      [] vm.relation = "NextSibling" ->
             /\ parent'[vm'.node] = parent[vm.node]
             /\ parent[vm.node] # None
             /\ \E i \in DOMAIN children'[parent[vm.node]] :
                    /\ i > 1
                    /\ children'[parent[vm.node]][i - 1] = vm.node
                    /\ children'[parent[vm.node]][i] = vm'.node
      [] OTHER -> FALSE

\* An AddNode or AddReference that did not raise: the cursor is a node that was
\* not in use, the root of what was added; it is the root of the new tree if
\* there was none, and attached to the former cursor otherwise; an AddReference
\* added a copy of the group's subtree, shape and values, made of such nodes.
AddsFresh ==
    (/\ pc = "build"
     /\ pc' = "build"
     /\ rules[rule].replace # <<>>
     /\ Head(rules[rule].replace).op \in {"AddNode", "AddReference"}) =>
        LET i == Head(rules[rule].replace)
            fresh == (used + 1)..used'
            h == [value |-> value', parent |-> parent', children |-> children']
        IN  /\ vm'.node = used + 1
            /\ Range(tree_preorder(h, vm'.node)) = fresh
            /\ fresh \cap HostNodes = {}
            /\ IF vm.tree = None
               THEN vm'.tree = vm'.node /\ parent'[vm'.node] = None
               ELSE vm'.tree = vm.tree /\ Attached
            /\ i.op = "AddReference" =>
                   LET group == matches[match][i.number + 1]
                       from == subtree_preorder(Heap, group)
                       to == tree_preorder(h, vm'.node)
                   IN  /\ ShapeOf(children', Node, vm'.node)
                              = ShapeOf(children, group.nodes, group.root)
                       /\ [k \in DOMAIN to |-> value'[to[k]]]
                              = [k \in DOMAIN from |-> value[from[k]]]
            /\ i.op = "AddNode" => used' = used + 1

\* C19: the tree the build machine returns shares no node with the host tree,
\* and building changes neither the host tree nor the match: AddNode makes a
\* fresh node, AddReference copies the group's subtree into fresh nodes; the
\* first one added is the root of the new tree, every later one is attached to
\* the cursor through the active relation, and the cursor is then the node
\* just attached (for AddReference the root of the copy).
C19_BuildSharesNothingWithHost ==
    /\ [][(pc = "build" => HostUntouched) /\ AddsFresh]_vars
    /\ []((pc = "rb_test" /\ op \in {"replace", "transform"} /\ new # None) =>
              Range(tree_preorder(Heap, new)) \cap HostNodes = {})

\* C19 witness: the replacement x < $1 < c was built for a match of {a < b}:
\* the copy a (b) hangs below x and c below the root of the copy.
C19_Witness ==
    /\ pc = "rb_test"
    /\ op = "replace"
    /\ new # None
    /\ value[new] = "x"
    /\ Len(children[new]) = 1
    /\ value[children[new][1]] = "a"
    /\ \E i, j \in DOMAIN children[children[new][1]] :
           /\ value[children[children[new][1]][i]] = "b"
           /\ value[children[children[new][1]][j]] = "c"

\* C20: an AddNode or AddReference that attaches through the Child relation
\* makes the new node the first child of the context node, before the children
\* the context node already has.
C20_ChildAttachesAsFirstChild ==
    [][(/\ pc = "build"
        /\ pc' = "build"
        /\ rules[rule].replace # <<>>
        /\ Head(rules[rule].replace).op \in {"AddNode", "AddReference"}
        /\ vm.tree # None
        /\ vm.relation = "Child") =>
           children'[vm.node] = <<vm'.node>> \o children[vm.node]]_vars

\* Whether, reading the first i tokens from the left, the ascend tokens have
\* outnumbered the child tokens at some point.
RECURSIVE Ascends(_, _), Descends(_, _)
Ascends(tokens, i) ==
    IF i = 0 THEN 0
    ELSE Ascends(tokens, i - 1) + (IF tokens[i].t = "parent_any" THEN 1 ELSE 0)
Descends(tokens, i) ==
    IF i = 0 THEN 0
    ELSE Descends(tokens, i - 1) + (IF tokens[i].t = "child" THEN 1 ELSE 0)
TooManyAscends(tokens) ==
    \E i \in DOMAIN tokens : Ascends(tokens, i) > Descends(tokens, i)

\* The build machine is about to execute an instruction of that name.
Building(name) ==
    /\ pc = "build"
    /\ rules[rule].replace # <<>>
    /\ Head(rules[rule].replace).op = name

\* C21: compile_replacement raises CompileError exactly when, reading left to
\* right, the ascends outnumber the child tokens, and the build program of an
\* accepted replacement never executes GoToParent while the cursor is the root
\* of the tree under construction: the cursor never becomes absent.
C21_NoAscendFromRoot ==
    op = "compile_replacement" =>
        /\ pc # "compile" =>
               (err = "CompileError" <=> TooManyAscends(source[1].replacement))
        /\ Building("GoToParent") => vm.node # None /\ vm.node # vm.tree
        /\ (pc \in {"build", "rb_test"} /\ vm.tree # None) => vm.node # None

\* The groups whose closing brace is among the first i tokens.
ClosedGroups(tokens, i) ==
    LET seen == Brackets(SubSeq(tokens, 1, i), 1, 0, <<>>)
    IN  {seen[j][2] : j \in {j \in DOMAIN seen : seen[j][1] = "GroupEnd"}}

\* A back-reference of the pattern comes before the closing brace of its group.
UnboundReference(tokens) ==
    \E i \in DOMAIN tokens :
        tokens[i].t = "reference_num" /\ tokens[i].n \notin ClosedGroups(tokens, i - 1)

\* The number of instructions the first i tokens of a pattern stand for.
RECURSIVE Emitted(_, _)
Emitted(tokens, i) ==
    IF i = 0 THEN 0
    ELSE Emitted(tokens, i - 1) + (IF tokens[i].t = "parent_any" THEN 2 ELSE 1)

Connected(h, s) ==
    IF s.root = None THEN s.nodes = {}
    ELSE /\ s.root \in s.nodes
         /\ \A n \in s.nodes \ {s.root} : h.parent[n] \in s.nodes

\* What the claim says of add_node(n) on the subtree s, which ended as `now`
\* with the exception error: n is the root's parent, n extends the subtree,
\* or n is another node outside it.
AddNodeAsClaimed(s, n, now, error, others) ==
    LET above == s.root # None /\ n = parent[s.root]
        below == n \notin s.nodes /\ parent[n] \in s.nodes
    IN  /\ above => error = "none" /\ now = [root |-> n, nodes |-> s.nodes \cup {n}]
        /\ below => error = "none" /\ now = [root |-> s.root, nodes |-> s.nodes \cup {n}]
        /\ (n \notin s.nodes /\ ~above /\ ~below /\ others) =>
               error = "SubtreeError" /\ now = s

\* C23 as stated: the subtree is connected after every call; add_node of the
\* root's parent makes it the root, add_node of a node whose parent is a
\* member extends the subtree, and add_node of any other node outside the
\* subtree raises SubtreeError and changes nothing.
C23_AsStated ==
    pc = "subtree" =>
        /\ Connected(Heap, old)
        /\ op = "add_node" => AddNodeAsClaimed(call0.old, log[1], old, err, TRUE)

\* C23: the subtree is connected after every add_node and remove_node call,
\* raising or not; add_node on an empty subtree makes the node the root and
\* only member; on a subtree that is not empty, add_node of the root's parent
\* makes it the root, add_node of a node whose parent is a member extends the
\* subtree, and add_node of any other node outside it raises SubtreeError and
\* leaves root and members as they were.
C23_ConnectedAfterEveryCall ==
    pc = "subtree" =>
        /\ Connected(Heap, old)
        /\ op = "add_node" =>
               /\ AddNodeAsClaimed(call0.old, log[1], old, err, call0.old.root # None)
               /\ call0.old.root = None =>
                      err = "none" /\ old = [root |-> log[1], nodes |-> {log[1]}]
        /\ err # "none" => old = call0.old

\* C23 witness: add_node of a node two levels below a member raised
\* SubtreeError on a subtree of two nodes.
C23_Witness ==
    /\ pc = "subtree"
    /\ op = "add_node"
    /\ err = "SubtreeError"
    /\ Cardinality(old.nodes) = 2
    /\ parent[log[1]] # None
    /\ parent[parent[log[1]]] \in old.nodes

\* The sequence lists the nodes of the set S once each, in pre-order (the host
\* trees number their nodes in pre-order).
ListsInPreorder(seq, S) ==
    /\ Range(seq) = S
    /\ \A i \in 1..(Len(seq) - 1) : seq[i] < seq[i + 1]

MatchInHost ==
    \A g \in DOMAIN matches[match] :
        /\ matches[match][g].nodes \subseteq Range(tree_preorder(Heap, root))
        /\ Connected(Heap, matches[match][g])

\* One step of replace or transform: a search starts only when no match of the
\* search before it is left, the list of matches changes only when a search
\* returns, the loop goes to the next match only when replace_by returned, and
\* the subtree replaced is the whole match of the list's current match.
SearchThenReplaceAll ==
    /\ (pc \in {"idle", "t_rule"} /\ pc' = "search_while") => match \notin 1..Len(matches)
    /\ matches' # matches => (pc = "search_while" /\ match' = 1)
    /\ match' # match => (match' = 1 \/ (pc = "rb_done" /\ match' = match + 1))
    /\ (pc = "build" /\ pc' = "rb_test") => old' = matches[match][1]

SelfRuleCalled ==
    /\ op = "transform"
    /\ source = <<Text(<<Constant("a")>>, <<Constant("a")>>)>>
    /\ \E n \in call0.nodes : call0.value[n] = "a"

\* C26: Tree.transform with a rule whose replacement re-creates a match of its
\* pattern, as a -> a on a tree with a node a, never ends: every search of the
\* rule's loop finds a match again, so the call neither returns nor raises.
C26_SelfRuleNeverEnds ==
    SelfRuleCalled => (pc # "raised" /\ ~(pc = "idle" /\ log # <<>>))

\* The instruction queue of branch b after the step.
QueueAfter(b) == IF b.shared THEN rules'[rule'].search ELSE b.instructions

\* All of a branch that the step could change: its record and its queue.
Untouched(b) == QueueAfter(b) = instructions_of(b)

\* The branch f was forked from branch b by a Find that found n: it has the
\* queue b had after the Find, b's relation and open groups, n as its cursor,
\* and b's captured node sets with n added to the open groups only.
ForkedFrom(f, b, n) ==
    /\ QueueAfter(f) = Tail(instructions_of(b))
    /\ f.relation = b.relation
    /\ f.groups = b.groups
    /\ f.node = n
    /\ Len(f.match) = Len(b.match)
    /\ \A k \in DOMAIN f.match :
           f.match[k].nodes = IF (k - 1) \in b.groups
                              THEN b.match[k].nodes \cup {n} ELSE b.match[k].nodes

\* One pass of the for loop of search(): the branch at the cursor executes.
BranchStep ==
    /\ pc = "search_for"
    /\ cursor <= Len(branches)
    /\ pc' = "search_for"

\* C27: a step of one search branch changes nothing of any other branch, be it
\* a branch still waiting in the round, one that has already taken its step,
\* or a sibling forked by the same Find: cursor, relation, open groups, Match
\* with its captured node sets and instruction queue of every other branch
\* stay as they were, and each fork of a Find differs from the forking branch
\* by its own found node only.
C27_BranchesIsolated ==
    [][BranchStep =>
          /\ branches' = branches
          /\ \A j \in DOMAIN branches \ {cursor} : Untouched(branches[j])
          /\ Len(new_branches') >= Len(new_branches)
          /\ \A j \in DOMAIN new_branches :
                 new_branches'[j] = new_branches[j] /\ Untouched(new_branches[j])
          /\ (instructions_of(branch) # <<>> /\ instruction.op = "Find") =>
                 LET found == matching_nodes(Heap, branch, instruction)
                 IN  /\ Len(new_branches') = Len(new_branches) + Len(found)
                     /\ \A i \in DOMAIN found :
                            ForkedFrom(new_branches'[Len(new_branches) + i],
                                       branch, found[i])]_vars

\* C27 witness: in a round of three branches forked by one Find, the second
\* is about to execute after the first has taken its step.
C27_Witness ==
    /\ pc = "search_for"
    /\ cursor = 2
    /\ Len(branches) = 3
    /\ Len(new_branches) = 1
    /\ \A j \in 1..3 : Len(branches[j].trail) = 1 /\ ~branches[j].shared
    /\ instructions_of(branches[2]) # <<>>

\* A search is running.
InSearch == pc \in {"search_while", "search_for"}

\* One pass of the for loop: a finished branch is kept as it is; any other
\* branch executes the one instruction at the head of its queue, and what
\* follows it in the round has the rest of that queue, with the instructions
\* of the group's traversal in front if the instruction was a back-reference,
\* none of them a back-reference.
OneInstructionEach ==
    BranchStep =>
        /\ cursor' = cursor + 1
        /\ instructions_of(branch) = <<>> => new_branches' = Append(new_branches, branch)
        /\ instructions_of(branch) # <<>> =>
               LET rest == Tail(instructions_of(branch))
                   from == Len(new_branches) + 1
               IN  \A j \in from..Len(new_branches') :
                       LET queue == QueueAfter(new_branches'[j])
                           added == Len(queue) - Len(rest)
                       IN  /\ added >= 0
                           /\ SubSeq(queue, added + 1, Len(queue)) = rest
                           /\ added > 0 => instruction.op = "SearchReference"
                           /\ instruction.op # "Find" => Len(new_branches') = from
                           /\ \A k \in 1..added : queue[k].op \in {"Find", "SetRelation"}

\* C28: every search ends: in each round every branch with a non-empty queue
\* executes exactly one instruction and the finished branches are kept as
\* they are, a back-reference puts finitely many Find and SetRelation
\* instructions and no back-reference in front of the queue, so the loop
\* leaves the search after finitely many rounds; a search that returns
\* returns the matches of its branches, all of them with empty queues.
C28_SearchTerminates ==
    /\ [][OneInstructionEach]_vars
    /\ [][(InSearch /\ ~InSearch' /\ pc' # "raised") =>
             /\ \A i \in DOMAIN branches : instructions_of(branches[i]) = <<>>
             /\ matches' = [i \in DOMAIN branches |-> branches[i].match]]_vars
    /\ (InSearch ~> ~InSearch)

\* C28 witness: a search with a back-reference returned two or more matches
\* after three or more Finds in each branch.
C28_Witness ==
    /\ op = "search"
    /\ pc = "idle"
    /\ Len(log) = 1
    /\ Len(matches) >= 2
    /\ \E i \in DOMAIN source[1].pattern : source[1].pattern[i].t = "reference_num"
    /\ \A i \in DOMAIN branches : Len(branches[i].trail) >= 3

\* C29: every replacement that compile_replacement accepts builds to
\* completion on a match that has the referenced groups: no build step raises,
\* and a next-sibling attach is never attempted while the cursor is the root
\* of the tree under construction, neither directly as in a, b nor after
\* ascending back to the root as in a < b > , c.
C29_AcceptedReplacementBuilds ==
    op = "compile_replacement" =>
        /\ pc # "compile" => (pc = "raised" => err = "CompileError")
        /\ (Building("AddNode") \/ Building("AddReference")) =>
               ~(vm.relation = "NextSibling" /\ vm.node = vm.tree)

\* The branch at the cursor executes a Find.
FindStep ==
    /\ pc = "search_for"
    /\ cursor <= Len(branches)
    /\ instructions_of(branch) # <<>>
    /\ instruction.op = "Find"

\* The open groups of the branch at the cursor, as subtrees.
OpenGroups == {branch.match[g + 1] : g \in {g \in branch.groups : g + 1 <= Len(branch.match)}}

\* The node set S has two nodes or more whose parents are outside it: it is
\* not one connected subtree of the host.
Disconnected(S) == Cardinality({n \in S : parent[n] \notin S}) > 1

\* The search ends with SubtreeError at this step.
EndsWithSubtreeError == pc' = "raised" /\ err' = "SubtreeError"

\* A sibling or next-sibling step from the cursor finds a node, and the
\* parent of the cursor is not a member of one of the given groups.
SiblingStepOutside(Gs) ==
    /\ FindStep
    /\ branch.relation \in {"Sibling", "NextSibling"}
    /\ matching_nodes(Heap, branch, instruction) # <<>>
    /\ \E s \in Gs : parent[branch.node] \notin s.nodes

====
